---------------------------- MODULE Spec2Model ----------------------------
(***************************************************************************)
(* A model of the x402 Celestia blob gateway: the blob request parser, the *)
(* idempotency store, the quote cache and the POST /v1/blobs coordinator   *)
(* (src/src/index.ts, src/src/idempotency-store.ts, src/src/pricing.ts).   *)
(*                                                                         *)
(* Strings are sequences of one-character strings.  The SHA-256            *)
(* fingerprint is modelled as the (collision-free) pair it hashes.         *)
(***************************************************************************)
EXTENDS Integers, Sequences, FiniteSets, TLC

(***************************************************************************)
(* Bounds of the model.                                                    *)
(***************************************************************************)
\* The clock Date.now() runs over 0..MaxTime.
MaxTime == 2
\* Requests that may be in flight at the same time.
MaxInflight == 2
\* Requests that arrive in a run.
MaxRequests == 3

(***************************************************************************)
(* Configuration (src/src/config.ts), at model scale.                      *)
(***************************************************************************)
\* config.idempotencyTtlMs
idempotencyTtlMs == 1
\* config.maxPayloadBytes
maxPayloadBytes == 3
\* The longest Idempotency-Key the hook admits.
MaxKeyLength == 120
\* config.celestiaNamespaceIdB64
celestiaNamespaceIdB64 == <<"A", "A", "E", "=">>

(***************************************************************************)
(* Canonical base64 (blob-request part of src/src/index.ts).               *)
(***************************************************************************)
B64Alphabet ==
    <<"A","B","C","D","E","F","G","H","I","J","K","L","M","N","O","P",
      "Q","R","S","T","U","V","W","X","Y","Z","a","b","c","d","e","f",
      "g","h","i","j","k","l","m","n","o","p","q","r","s","t","u","v",
      "w","x","y","z","0","1","2","3","4","5","6","7","8","9","+","/">>

isBase64CharCode(c) == \E i \in 1..64 : B64Alphabet[i] = c

\* The 6-bit value of an alphabet character.
B64Value(c) == (CHOOSE i \in 1..64 : B64Alphabet[i] = c) - 1

\* The syntactic screen of decodeStrictBase64: length, alphabet, padding place.
B64WellFormed(value) ==
    /\ Len(value) % 4 = 0
    /\ \A i \in 1..Len(value) :
          IF value[i] = "="
            THEN i > Len(value) - 2
            ELSE /\ isBase64CharCode(value[i])
                 /\ \A j \in 1..(i - 1) : value[j] # "="

\* Buffer.from(value, "base64") on a well-formed string: the decoded bytes.
RECURSIVE B64Decode(_)
B64Decode(value) ==
    IF Len(value) < 4 THEN <<>>
    ELSE LET a == B64Value(value[1])
             b == B64Value(value[2])
             rest == SubSeq(value, 5, Len(value))
         IN  IF value[3] = "="
               THEN <<(a * 4 + b \div 16) % 256>>
             ELSE IF value[4] = "="
               THEN LET c == B64Value(value[3])
                    IN  <<(a * 4 + b \div 16) % 256,
                          ((b % 16) * 16 + c \div 4) % 256>>
             ELSE LET c == B64Value(value[3])
                      d == B64Value(value[4])
                  IN  <<(a * 4 + b \div 16) % 256,
                        ((b % 16) * 16 + c \div 4) % 256,
                        ((c % 4) * 64 + d) % 256>> \o B64Decode(rest)

\* buffer.toString("base64"): the canonical encoding of a byte sequence.
RECURSIVE B64Encode(_)
B64Encode(bytes) ==
    IF Len(bytes) = 0 THEN <<>>
    ELSE IF Len(bytes) = 1
      THEN <<B64Alphabet[bytes[1] \div 4 + 1],
             B64Alphabet[(bytes[1] % 4) * 16 + 1], "=", "=">>
    ELSE IF Len(bytes) = 2
      THEN <<B64Alphabet[bytes[1] \div 4 + 1],
             B64Alphabet[(bytes[1] % 4) * 16 + bytes[2] \div 16 + 1],
             B64Alphabet[(bytes[2] % 16) * 4 + 1], "=">>
    ELSE <<B64Alphabet[bytes[1] \div 4 + 1],
           B64Alphabet[(bytes[1] % 4) * 16 + bytes[2] \div 16 + 1],
           B64Alphabet[(bytes[2] % 16) * 4 + bytes[3] \div 64 + 1],
           B64Alphabet[(bytes[3] % 64) + 1]>>
         \o B64Encode(SubSeq(bytes, 4, Len(bytes)))

\* The value standing for a thrown validation error of decodeStrictBase64
\* (no decoded byte is negative).
Thrown == <<-1>>

\* decodeStrictBase64 without the comparison of the re-encoded bytes.
decodeStrictBase64NoRoundTrip(value) ==
    IF ~B64WellFormed(value) THEN Thrown
    ELSE LET decoded == B64Decode(value)
         IN  IF Len(decoded) = 0 THEN Thrown
             ELSE decoded

\* decodeStrictBase64: the decoded bytes, or Thrown where the source throws.
decodeStrictBase64(value) ==
    IF ~B64WellFormed(value) THEN Thrown
    ELSE LET decoded == B64Decode(value)
         IN  IF Len(decoded) = 0 THEN Thrown
             ELSE IF B64Encode(decoded) # value THEN Thrown
             ELSE decoded

\* createHash("sha256").update(input).digest("hex"), in lower or upper case:
\* the digest stands for its input, no two inputs sharing a digest.
Sha256Hex(input, letters) == [sha256 |-> input, hex |-> letters]

\* The result of parseBlobRequest where the source throws.
ParseError == [error |-> "Invalid request body"]

\* parseBlobRequest hashing namespace and data without the separator.
parseBlobRequestNoSeparator(body, defaultNamespaceIdB64) ==
    IF "data" \notin DOMAIN body \/ Len(body.data) < 1 THEN ParseError
    ELSE LET namespaceIdB64 ==
                 IF "namespace_id" \in DOMAIN body THEN body.namespace_id
                 ELSE IF "namespaceId" \in DOMAIN body THEN body.namespaceId
                 ELSE defaultNamespaceIdB64
             payloadBuffer == decodeStrictBase64(body.data)
         IN  IF decodeStrictBase64(namespaceIdB64) = Thrown THEN ParseError
             ELSE IF payloadBuffer = Thrown THEN ParseError
             ELSE [namespaceIdB64 |-> namespaceIdB64,
                   dataB64        |-> B64Encode(payloadBuffer),
                   payloadBytes   |-> Len(payloadBuffer),
                   fingerprint    |->
                       Sha256Hex(namespaceIdB64 \o B64Encode(payloadBuffer),
                                 "lower")]

\* A request body is a record that may hold the fields data, namespace_id,
\* namespaceId and metadata (which the model leaves out of the result).
\* parseBlobRequest: the parsed request, or ParseError where the source throws.
parseBlobRequest(body, defaultNamespaceIdB64) ==
    IF "data" \notin DOMAIN body \/ Len(body.data) < 1 THEN ParseError
    ELSE LET namespaceIdB64 ==
                 IF "namespace_id" \in DOMAIN body THEN body.namespace_id
                 ELSE IF "namespaceId" \in DOMAIN body THEN body.namespaceId
                 ELSE defaultNamespaceIdB64
             payloadBuffer == decodeStrictBase64(body.data)
         IN  IF decodeStrictBase64(namespaceIdB64) = Thrown THEN ParseError
             ELSE IF payloadBuffer = Thrown THEN ParseError
             ELSE [namespaceIdB64 |-> namespaceIdB64,
                   dataB64        |-> B64Encode(payloadBuffer),
                   payloadBytes   |-> Len(payloadBuffer),
                   fingerprint    |->
                       Sha256Hex(namespaceIdB64 \o <<"\n">>
                                    \o B64Encode(payloadBuffer), "lower")]

(***************************************************************************)
(* IdempotencyStore (src/src/idempotency-store.ts).  The Map of records is *)
(* a function from the keys present to their records; t is Date.now().     *)
(***************************************************************************)
\* isExpired with the bound included: a record expires a tick early.
isExpiredInclusive(record, t) == t - record.createdAtMs >= idempotencyTtlMs

isExpired(record, t) == t - record.createdAtMs > idempotencyTtlMs

\* The map m without key k.
MapDelete(m, k) == [x \in DOMAIN m \ {k} |-> m[x]]

\* The map m with k set to v.
MapSet(m, k, v) == [x \in DOMAIN m \cup {k} |-> IF x = k THEN v ELSE m[x]]

pruneKey(recs, key, t) ==
    IF key \notin DOMAIN recs THEN recs
    ELSE IF isExpired(recs[key], t) THEN MapDelete(recs, key)
    ELSE recs

cleanup(recs, t) ==
    [k \in {x \in DOMAIN recs : ~isExpired(recs[x], t)} |-> recs[k]]

\* get(key): the store after the call; the record returned is that store's
\* record of key, if it has one.
get(recs, key, t) == pruneKey(recs, key, t)

\* begin that sweeps the whole store before it looks: records of other keys
\* go with the call.
beginSweeping(recs, key, fingerprint, t) ==
    LET pruned == cleanup(recs, t)
    IN  IF key \in DOMAIN pruned THEN pruned
        ELSE MapSet(pruned, key,
                    [key         |-> key,
                     fingerprint |-> fingerprint,
                     status      |-> "processing",
                     createdAtMs |-> t,
                     updatedAtMs |-> t])

\* begin that takes the caller's fingerprint into a live record.
beginRebinding(recs, key, fingerprint, t) ==
    LET pruned == get(recs, key, t)
    IN  IF key \in DOMAIN pruned
          THEN [pruned EXCEPT ![key].fingerprint = fingerprint]
        ELSE MapSet(pruned, key,
                    [key         |-> key,
                     fingerprint |-> fingerprint,
                     status      |-> "processing",
                     createdAtMs |-> t,
                     updatedAtMs |-> t])

\* begin(key, fingerprint): the store after the call.
begin(recs, key, fingerprint, t) ==
    LET pruned == get(recs, key, t)
    IN  IF key \in DOMAIN pruned THEN pruned
        ELSE MapSet(pruned, key,
                    [key         |-> key,
                     fingerprint |-> fingerprint,
                     status      |-> "processing",
                     createdAtMs |-> t,
                     updatedAtMs |-> t])

\* The record of a terminal state: the fields of existing, with the status and
\* the response set.
Terminal(existing, status, responseStatus, responseBody, t) ==
    [key            |-> existing.key,
     fingerprint    |-> existing.fingerprint,
     status         |-> status,
     responseStatus |-> responseStatus,
     responseBody   |-> responseBody,
     createdAtMs    |-> existing.createdAtMs,
     updatedAtMs    |-> t]

\* complete that creates the record it does not find.
completeCreating(recs, key, responseStatus, responseBody, t) ==
    IF key \notin DOMAIN recs
      THEN MapSet(recs, key,
                  [key            |-> key,
                   fingerprint    |-> << >>,
                   status         |-> "completed",
                   responseStatus |-> responseStatus,
                   responseBody   |-> responseBody,
                   createdAtMs    |-> t,
                   updatedAtMs    |-> t])
    ELSE [recs EXCEPT ![key] =
            Terminal(@, "completed", responseStatus, responseBody, t)]

complete(recs, key, responseStatus, responseBody, t) ==
    IF key \notin DOMAIN recs THEN recs
    ELSE [recs EXCEPT ![key] =
            Terminal(@, "completed", responseStatus, responseBody, t)]

\* fail that leaves the record as it is.
failNothing(recs, key, responseStatus, responseBody, t) == recs

fail(recs, key, responseStatus, responseBody, t) ==
    IF key \notin DOMAIN recs THEN recs
    ELSE [recs EXCEPT ![key] =
            Terminal(@, "failed", responseStatus, responseBody, t)]

(***************************************************************************)
(* PricingEngine.quote (src/src/pricing.ts), in fixed point: USD amounts   *)
(* are counted in units of 0.0001 USD, the gas estimate in thousands of    *)
(* gas, the gas price in thousandths of utia, the TIA rate in cents.       *)
(***************************************************************************)
\* config.pricingMarkupBps
pricingMarkupBps == 2500
\* config.pricingFixedUsd, in units of 0.0001 USD
pricingFixedUsd == 0
\* config.pricingMinUsd, in units of 0.0001 USD
pricingMinUsd == 1

\* ceil(n / d) for n >= 0, d > 0
CeilDiv(n, d) == (n + d - 1) \div d

Max(a, b) == IF a >= b THEN a ELSE b

\* The decimal digits of n >= 0.
RECURSIVE Digits(_)
Digits(n) ==
    LET d == <<"0","1","2","3","4","5","6","7","8","9">>[(n % 10) + 1]
    IN  IF n < 10 THEN <<d>> ELSE Digits(n \div 10) \o <<d>>

\* `$${chargedUsd.toFixed(4)}` of an amount counted in units of 0.0001 USD
toPriceString(units) ==
    <<"$">> \o Digits(units \div 10000) \o <<".">>
            \o Digits((units \div 1000) % 10) \o Digits((units \div 100) % 10)
            \o Digits((units \div 10) % 10) \o Digits(units % 10)

\* quote charging the price per payload byte instead of the price.
quotePerByte(payloadBytes, estimatedGas, gasPriceUtia, tiaUsd) ==
    LET product == estimatedGas * gasPriceUtia * tiaUsd
        withMarkup == CeilDiv(product * (10000 + pricingMarkupBps),
                              100000000 * payloadBytes)
                        + pricingFixedUsd
        chargedUsd == Max(pricingMinUsd, withMarkup)
    IN  [payloadBytes |-> payloadBytes,
         mainnetReference |-> [estimatedGas |-> estimatedGas,
                               gasPriceUtia |-> gasPriceUtia,
                               tiaUsd       |-> tiaUsd],
         chargedUsd |-> chargedUsd,
         chargedPriceString |-> toPriceString(chargedUsd)]

\* quote with the price rounded down to 4 decimals.
quoteRoundedDown(payloadBytes, estimatedGas, gasPriceUtia, tiaUsd) ==
    LET product == estimatedGas * gasPriceUtia * tiaUsd
        withMarkup == (product * (10000 + pricingMarkupBps)) \div 100000000
                        + pricingFixedUsd
        chargedUsd == Max(pricingMinUsd, withMarkup)
    IN  [payloadBytes |-> payloadBytes,
         mainnetReference |-> [estimatedGas |-> estimatedGas,
                               gasPriceUtia |-> gasPriceUtia,
                               tiaUsd       |-> tiaUsd],
         chargedUsd |-> chargedUsd,
         chargedPriceString |-> toPriceString(chargedUsd)]

\* The quote computed from the three upstream answers.
\* estimatedUsd * 10^4 = gasK * priceMilli * tiaCents / 10^4, and
\* roundToUsdPrice(withMarkup) * 10^4 = ceil(withMarkup * 10^4).
quote(payloadBytes, estimatedGas, gasPriceUtia, tiaUsd) ==
    LET product == estimatedGas * gasPriceUtia * tiaUsd
        withMarkup == CeilDiv(product * (10000 + pricingMarkupBps), 100000000)
                        + pricingFixedUsd
        chargedUsd == Max(pricingMinUsd, withMarkup)
    IN  [payloadBytes |-> payloadBytes,
         mainnetReference |-> [estimatedGas |-> estimatedGas,
                               gasPriceUtia |-> gasPriceUtia,
                               tiaUsd       |-> tiaUsd],
         chargedUsd |-> chargedUsd,
         chargedPriceString |-> toPriceString(chargedUsd)]

(***************************************************************************)
(* The requests a client may send to POST /v1/blobs.                       *)
(***************************************************************************)
KeyA == <<"a">>
\* A header value that trims to KeyA.
KeyPaddedA == <<" ", "a">>
KeyBlank == <<" ">>
KeyLong == [i \in 1..(MaxKeyLength + 1) |-> "x"]

\* "hi", "a", "a" with non-canonical trailing bits, four zero bytes
DataHi == <<"a", "G", "k", "=">>
DataA == <<"Y", "Q", "=", "=">>
DataNonCanonical == <<"Y", "R", "=", "=">>
DataBig == <<"A", "A", "A", "A", "A", "A", "=", "=">>

\* Bodies the parser accepts and bodies it rejects (non-canonical padding
\* bits, more than maxPayloadBytes bytes, no data field).
ValidBodies ==
    { [data |-> DataHi],
      [data |-> DataA],
      [data |-> DataHi, namespace_id |-> celestiaNamespaceIdB64] }

InvalidBodies ==
    { [data |-> DataNonCanonical],
      [data |-> DataBig],
      [namespace_id |-> celestiaNamespaceIdB64] }

Bodies == ValidBodies \cup InvalidBodies

\* Headers with a usable Idempotency-Key and headers without one.
ValidHeaders ==
    { [idempotencyKey |-> KeyA],
      [idempotencyKey |-> KeyPaddedA],
      [idempotencyKey |-> KeyA, paymentSignature |-> "signed"] }

InvalidHeaders ==
    { [paymentSignature |-> "signed"],
      [idempotencyKey |-> KeyBlank],
      [idempotencyKey |-> KeyLong] }

\* A request: its headers (a record that may hold idempotencyKey and
\* paymentSignature) and its JSON body.
Requests ==
    { [headers |-> h, body |-> b] : h \in ValidHeaders, b \in ValidBodies }
    \cup { [headers |-> [idempotencyKey |-> KeyA], body |-> b] :
              b \in InvalidBodies }
    \cup { [headers |-> h, body |-> [data |-> DataHi]] : h \in InvalidHeaders }

\* The bodies a request in flight may carry: those sent, and those with the
\* namespace resolved.
AllBodies ==
    Bodies \cup { [data |-> b.data, namespace_id |-> celestiaNamespaceIdB64] :
                    b \in {x \in Bodies : "data" \in DOMAIN x} }

\* parseBlobRequest(req.body, config.celestiaNamespaceIdB64), tabulated over
\* the bodies of the model.
parsedBody ==
    [b \in AllBodies |-> parseBlobRequest(b, celestiaNamespaceIdB64)]

\* String.prototype.trim on a header value
RECURSIVE trim(_)
trim(str) ==
    IF Len(str) = 0 THEN str
    ELSE IF Head(str) = " " THEN trim(Tail(str))
    ELSE IF str[Len(str)] = " " THEN trim(SubSeq(str, 1, Len(str) - 1))
    ELSE str

\* getHeader("idempotency-key")?.trim(): the empty string when absent or blank
\* (both are falsy in the source).
headerKey(req) ==
    IF "idempotencyKey" \in DOMAIN req.headers
      THEN trim(req.headers.idempotencyKey) ELSE <<>>

hasPayment(req) == "paymentSignature" \in DOMAIN req.headers

(***************************************************************************)
(* onProtectedRequest (src/src/index.ts): the hook the payment middleware  *)
(* runs before any payment processing, once x402Ready is set.  Its result: *)
(* abort with a reason, grantAccess, or continue to payment; with the      *)
(* store after its get.  One reason stands for the messages of the parser, *)
(* and the reason of an oversized payload is without its numbers.          *)
(***************************************************************************)
\* onProtectedRequest with the lookup made before the validation: a request
\* rejected for its body or its size has pruned the store.
onProtectedRequestLookupFirst(req, recs, t) ==
    LET key == headerKey(req)
        parsed == parsedBody[req.body]
        after == get(recs, key, t)
    IN  IF Len(key) = 0
          THEN [result |-> "abort", recs |-> recs,
                reason |-> "Idempotency-Key header is required"]
        ELSE IF Len(key) > MaxKeyLength
          THEN [result |-> "abort", recs |-> after,
                reason |-> "Idempotency-Key must be 120 characters or fewer"]
        ELSE IF parsed = ParseError
          THEN [result |-> "abort", recs |-> after,
                reason |-> "Invalid request body"]
        ELSE IF parsed.payloadBytes > maxPayloadBytes
          THEN [result |-> "abort", recs |-> after,
                reason |-> "Payload exceeds MAX_PAYLOAD_BYTES"]
        ELSE IF key \notin DOMAIN after
          THEN [result |-> "continue", recs |-> after, reason |-> ""]
        ELSE IF after[key].fingerprint # parsed.fingerprint
          THEN [result |-> "abort", recs |-> after,
                reason |-> "Idempotency-Key already used with different payload"]
        ELSE [result |-> "grantAccess", recs |-> after, reason |-> ""]

onProtectedRequest(req, recs, t) ==
    LET key == headerKey(req)
        parsed == parsedBody[req.body]
        after == get(recs, key, t)
    IN  IF Len(key) = 0
          THEN [result |-> "abort", recs |-> recs,
                reason |-> "Idempotency-Key header is required"]
        ELSE IF Len(key) > MaxKeyLength
          THEN [result |-> "abort", recs |-> recs,
                reason |-> "Idempotency-Key must be 120 characters or fewer"]
        ELSE IF parsed = ParseError
          THEN [result |-> "abort", recs |-> recs,
                reason |-> "Invalid request body"]
        ELSE IF parsed.payloadBytes > maxPayloadBytes
          THEN [result |-> "abort", recs |-> recs,
                reason |-> "Payload exceeds MAX_PAYLOAD_BYTES"]
        ELSE IF key \notin DOMAIN after
          THEN [result |-> "continue", recs |-> after, reason |-> ""]
        ELSE IF after[key].fingerprint # parsed.fingerprint
          THEN [result |-> "abort", recs |-> after,
                reason |-> "Idempotency-Key already used with different payload"]
        ELSE [result |-> "grantAccess", recs |-> after, reason |-> ""]

(***************************************************************************)
(* getOrCreateQuote (src/src/index.ts): the cache test made before the     *)
(* pricing call, and the entry stored after it.                            *)
(***************************************************************************)
\* The cache test without the comparison of fingerprints.
quoteCacheHitAnyFingerprint(cache, normalizedKey, fingerprint, t) ==
    /\ Len(normalizedKey) > 0
    /\ normalizedKey \in DOMAIN cache
    /\ cache[normalizedKey].expiresAt > t

quoteCacheHit(cache, normalizedKey, fingerprint, t) ==
    /\ Len(normalizedKey) > 0
    /\ normalizedKey \in DOMAIN cache
    /\ cache[normalizedKey].fingerprint = fingerprint
    /\ cache[normalizedKey].expiresAt > t

\* quoteCacheStore without the time to live: the entry is stored expired.
quoteCacheStoreNoTtl(cache, normalizedKey, fingerprint, q, t) ==
    IF Len(normalizedKey) > 0
      THEN MapSet(cache, normalizedKey,
                  [fingerprint |-> fingerprint, quote |-> q, expiresAt |-> t])
      ELSE cache

\* quoteCacheStore that stores under the empty key too.
quoteCacheStoreAnonymous(cache, normalizedKey, fingerprint, q, t) ==
    MapSet(cache, normalizedKey,
           [fingerprint |-> fingerprint, quote |-> q,
            expiresAt |-> t + idempotencyTtlMs])

quoteCacheStore(cache, normalizedKey, fingerprint, q, t) ==
    IF Len(normalizedKey) > 0
      THEN MapSet(cache, normalizedKey,
                  [fingerprint |-> fingerprint, quote |-> q,
                   expiresAt |-> t + idempotencyTtlMs])
      ELSE cache

\* The sweep that empties the cache.
quoteCacheSweepAll(cache, t) == << >>

\* The sweep that keeps an entry at the instant of its expiry.
quoteCacheSweepLate(cache, t) ==
    [k \in {x \in DOMAIN cache : ~(cache[x].expiresAt < t)} |-> cache[k]]

\* The sweep of the quote cache in the 60-second interval.
quoteCacheSweep(cache, t) ==
    [k \in {x \in DOMAIN cache : ~(cache[x].expiresAt <= t)} |-> cache[k]]

(***************************************************************************)
(* The upstream services: the gas estimate, the gas price and the TIA rate *)
(* the pricing engine reads.  The upstream is in one of two worlds, which   *)
(* differ in the gas price.                                                *)
(***************************************************************************)
Worlds == {1, 2}
estimateGasForPfb(world, payloadBytes) == 70 + 10 * payloadBytes
getGasPriceUtia(world) == IF world = 1 THEN 4 ELSE 8

\* config.tiaUsdFallback, in cents
tiaUsdFallback == 50
\* The lifetime of a cached rate (60 seconds), in ticks of the clock.
tiaUsdCacheMs == 1

\* PricingEngine.cachedTiaUsd while undefined.
NoCachedTiaUsd == [fetchedAtMs |-> -1]

\* What the rate source answers to one fetch: the fetch throws, the status is
\* not OK, or the body holds celestia.usd, which is a finite number, a
\* number that is not finite, or no number at all.
RateAnswers ==
    { [kind |-> "throw"], [kind |-> "status"], [kind |-> "body", usd |-> "none"],
      [kind |-> "body", usd |-> "infinite"],
      [kind |-> "body", usd |-> "finite", value |-> 0],
      [kind |-> "body", usd |-> "finite", value |-> 200],
      [kind |-> "body", usd |-> "finite", value |-> tiaUsdFallback] }

\* loadTiaUsd without its catch: a failed read of the rate rejects.
loadTiaUsdNoCatch(tiaUsdSource, cached, t, answer) ==
    IF tiaUsdSource = "fallback"
      THEN [ok |-> TRUE, value |-> tiaUsdFallback, cached |-> cached,
            fetched |-> FALSE]
    ELSE IF cached # NoCachedTiaUsd /\ t - cached.fetchedAtMs < tiaUsdCacheMs
      THEN [ok |-> TRUE, value |-> cached.value, cached |-> cached,
            fetched |-> FALSE]
    ELSE IF answer.kind = "body" /\ answer.usd = "finite" /\ answer.value > 0
      THEN [ok |-> TRUE, value |-> answer.value,
            cached |-> [value |-> answer.value, fetchedAtMs |-> t],
            fetched |-> TRUE]
    ELSE [ok |-> FALSE, value |-> tiaUsdFallback, cached |-> cached,
          fetched |-> TRUE]

\* loadTiaUsd: the rate returned, the cache after the call and whether the
\* rate source was read.  ok is FALSE where the promise rejects.
loadTiaUsd(tiaUsdSource, cached, t, answer) ==
    IF tiaUsdSource = "fallback"
      THEN [ok |-> TRUE, value |-> tiaUsdFallback, cached |-> cached,
            fetched |-> FALSE]
    ELSE IF cached # NoCachedTiaUsd /\ t - cached.fetchedAtMs < tiaUsdCacheMs
      THEN [ok |-> TRUE, value |-> cached.value, cached |-> cached,
            fetched |-> FALSE]
    ELSE IF answer.kind = "body" /\ answer.usd = "finite" /\ answer.value > 0
      THEN [ok |-> TRUE, value |-> answer.value,
            cached |-> [value |-> answer.value, fetchedAtMs |-> t],
            fetched |-> TRUE]
    ELSE [ok |-> TRUE, value |-> tiaUsdFallback, cached |-> cached,
          fetched |-> TRUE]

\* pricingEngine.quote(payloadBytes) answered by the upstream in world, the
\* rate being the configured fallback.
pricingEngineQuote(world, payloadBytes) ==
    quote(payloadBytes, estimateGasForPfb(world, payloadBytes),
          getGasPriceUtia(world), tiaUsdFallback)

(***************************************************************************)
(* The submission backend (CelestiaSubmitter.submitBlob): what it returns  *)
(* or throws.  An error is a CelestiaSubmitError, with or without a code,  *)
(* or any other exception.                                                 *)
(***************************************************************************)
\* config.celestiaSubmitMode
celestiaSubmitMode == "rpc"

\* The code of "payload too large for the destination network".
TooLargeCode == 21

SubmitErrors ==
    { [name |-> "CelestiaSubmitError", code |-> TooLargeCode,
       message |-> "Celestia tx failed with code 21"],
      [name |-> "CelestiaSubmitError", code |-> 1,
       message |-> "Celestia tx failed with code 1"],
      [name |-> "TypeError", message |-> "fetch failed"] }

\* What pricingEngine.quote throws when a gas read fails.
PricingError == [name |-> "Error", message |-> "Celenium mainnet request failed"]

submitBlob(input) ==
    { [ok |-> TRUE,
       result |-> [mode |-> celestiaSubmitMode, txHash |-> "TXHASH",
                   height |-> 1, code |-> 0]] }
    \cup { [ok |-> FALSE, error |-> e] : e \in SubmitErrors }

(***************************************************************************)
(* POST /v1/blobs (src/src/index.ts): the responses of the handler.        *)
(***************************************************************************)
isCelestiaSubmitError(error) == error.name = "CelestiaSubmitError"

isTooLarge(error) ==
    /\ isCelestiaSubmitError(error)
    /\ "code" \in DOMAIN error
    /\ error.code = TooLargeCode

\* The catch branch taking every error for an error of the backend.
failureStatusBackendOnly(error) ==
    IF isTooLarge(error) THEN 413 ELSE 502

\* The status of the catch branch.
failureStatus(error) ==
    IF isTooLarge(error) THEN 413
    ELSE IF isCelestiaSubmitError(error) THEN 502
    ELSE 500

idempotencyTag(key, replayed, status) ==
    [key |-> key, replayed |-> replayed, status |-> status]

successBody(key, parsed, submitResult, q) ==
    [status       |-> "submitted",
     mode         |-> submitResult.mode,
     namespaceId  |-> parsed.namespaceIdB64,
     payloadBytes |-> parsed.payloadBytes,
     txHash       |-> submitResult.txHash,
     code         |-> submitResult.code,
     quote        |-> q,
     height       |-> submitResult.height,
     refundPolicy |-> "If Celestia submit fails, this endpoint returns >=400 so x402 settlement does not execute (no charge).",
     idempotency  |-> idempotencyTag(key, FALSE, "completed")]

failureBody(key, error) ==
    [error        |-> "Failed to submit blob to Celestia",
     details      |-> error.message,
     charged      |-> FALSE,
     hint         |-> IF isTooLarge(error)
                        THEN "Celestia rejected the blob transaction as too large. Reduce payload size."
                        ELSE "",
     refundPolicy |-> "No settlement is executed because this request failed (status >= 400), so no refund transfer is needed.",
     idempotency  |-> idempotencyTag(key, FALSE, "failed")]

conflictBody(key, existing) ==
    [error       |-> "Idempotency-Key already used with different payload",
     idempotency |-> idempotencyTag(key, TRUE, existing.status)]

processingBody(key, existing) ==
    [error       |-> "Request with this Idempotency-Key is still processing",
     idempotency |-> idempotencyTag(key, TRUE, existing.status)]

\* { ...existing.responseBody, idempotency: { key, replayed: true, status } }
replayBody(key, existing) ==
    [f \in DOMAIN existing.responseBody \cup {"idempotency"} |->
        IF f = "idempotency" THEN idempotencyTag(key, TRUE, existing.status)
        ELSE existing.responseBody[f]]

\* existing.responseStatus ?? 200
replayStatus(existing) ==
    IF "responseStatus" \in DOMAIN existing THEN existing.responseStatus ELSE 200

\* The handler without a lookup of its own, relying on that of the hook: it
\* goes straight to begin.
blobsHandlerLookupNoLookup(req, recs, t) ==
    LET idempotencyKey == headerKey(req)
        parsed == parsedBody[req.body]
    IN  IF Len(idempotencyKey) = 0
          THEN [branch |-> "invalid", status |-> 400, recs |-> recs,
                body |-> [error |-> "Idempotency-Key header is required"]]
        ELSE IF parsed = ParseError
          THEN [branch |-> "invalid", status |-> 400, recs |-> recs,
                body |-> [error |-> "Invalid blob payload"]]
        ELSE IF parsed.payloadBytes > maxPayloadBytes
          THEN [branch |-> "invalid", status |-> 413, recs |-> recs,
                body |-> [error |-> "Payload too large"]]
        ELSE [branch |-> "begin", status |-> 0, body |-> [error |-> ""],
              recs |-> begin(recs, idempotencyKey, parsed.fingerprint, t)]

\* The handler without its test for a processing record: the record is
\* replayed as if it were terminal, with the default status 200.
blobsHandlerLookupNoProcessing(req, recs, t) ==
    LET idempotencyKey == headerKey(req)
        parsed == parsedBody[req.body]
        after == get(recs, idempotencyKey, t)
    IN  IF Len(idempotencyKey) = 0
          THEN [branch |-> "invalid", status |-> 400, recs |-> recs,
                body |-> [error |-> "Idempotency-Key header is required"]]
        ELSE IF parsed = ParseError
          THEN [branch |-> "invalid", status |-> 400, recs |-> recs,
                body |-> [error |-> "Invalid blob payload"]]
        ELSE IF parsed.payloadBytes > maxPayloadBytes
          THEN [branch |-> "invalid", status |-> 413, recs |-> recs,
                body |-> [error |-> "Payload too large"]]
        ELSE IF idempotencyKey \in DOMAIN after
          THEN LET existing == after[idempotencyKey]
               IN  IF existing.fingerprint # parsed.fingerprint
                     THEN [branch |-> "conflict", status |-> 409, recs |-> after,
                           body |-> conflictBody(idempotencyKey, existing)]
                   ELSE IF existing.status = "processing"
                     THEN [branch |-> "replay", status |-> 200, recs |-> after,
                           body |-> [idempotency |->
                                       idempotencyTag(idempotencyKey, TRUE,
                                                      existing.status)]]
                   ELSE [branch |-> "replay", status |-> replayStatus(existing),
                         recs |-> after,
                         body |-> replayBody(idempotencyKey, existing)]
        ELSE [branch |-> "begin", status |-> 0, body |-> [error |-> ""],
              recs |-> begin(after, idempotencyKey, parsed.fingerprint, t)]

\* The part of the handler that runs before its first await: the validation,
\* the lookup and the answer from an existing record, or begin.  The result
\* names the branch taken, the response (if one is sent) and the store after.
blobsHandlerLookup(req, recs, t) ==
    LET idempotencyKey == headerKey(req)
        parsed == parsedBody[req.body]
        after == get(recs, idempotencyKey, t)
    IN  IF Len(idempotencyKey) = 0
          THEN [branch |-> "invalid", status |-> 400, recs |-> recs,
                body |-> [error |-> "Idempotency-Key header is required"]]
        ELSE IF parsed = ParseError
          THEN [branch |-> "invalid", status |-> 400, recs |-> recs,
                body |-> [error |-> "Invalid blob payload"]]
        ELSE IF parsed.payloadBytes > maxPayloadBytes
          THEN [branch |-> "invalid", status |-> 413, recs |-> recs,
                body |-> [error |-> "Payload too large"]]
        ELSE IF idempotencyKey \in DOMAIN after
          THEN LET existing == after[idempotencyKey]
               IN  IF existing.fingerprint # parsed.fingerprint
                     THEN [branch |-> "conflict", status |-> 409, recs |-> after,
                           body |-> conflictBody(idempotencyKey, existing)]
                   ELSE IF existing.status = "processing"
                     THEN [branch |-> "processing", status |-> 409, recs |-> after,
                           body |-> processingBody(idempotencyKey, existing)]
                   ELSE [branch |-> "replay", status |-> replayStatus(existing),
                         recs |-> after,
                         body |-> replayBody(idempotencyKey, existing)]
        ELSE [branch |-> "begin", status |-> 0, body |-> [error |-> ""],
              recs |-> begin(after, idempotencyKey, parsed.fingerprint, t)]

(***************************************************************************)
(* The state of the server.                                                *)
(***************************************************************************)
VARIABLES
    now,                    \* Date.now()
    records,                \* idempotencyStore.records
    quoteByIdempotencyKey,  \* the quote cache
    upstream,               \* the world the upstream services are in
    inflight,               \* the requests being served, each at its await
    last,                   \* the response sent by the step just taken
    submitCount,            \* history: submitBlob invocations per key
    submissions,            \* history: key, fingerprint and begin time of each
    answered,               \* history: the response of the attempt that began
                            \*   the record now stored under a key
    issued,                 \* history: the quote stored last under a key
    arrived,                \* history: the number of requests so far
    earlier,                \* what the function applied before the last returned
    result,                 \* what the function applied last returned
    pricingTiaUsdSource,    \* config.pricingTiaUsdSource
    cachedTiaUsd,           \* PricingEngine.cachedTiaUsd
    x402Ready,              \* the readiness flag of the payment backend
    sync,                   \* where syncFacilitatorSupport stands
    facilitator,            \* whether httpServer.initialize() can succeed now
    child,                  \* the Go poster command of one invoke()
    posterStatus,           \* the snapshot refreshPosterStatus stores
    quotePromiseByAdapter,  \* the memoized quoteForRequest of each adapter
    pending,                \* the calls of a unit that are at their await
    celestiaSubmitter       \* the backend the server was constructed with

serverVars == <<now, records, quoteByIdempotencyKey, upstream, inflight, last,
                submitCount, submissions, answered, issued, arrived>>

readyVars == <<x402Ready, sync, facilitator>>

backgroundVars == <<posterStatus, quotePromiseByAdapter, pending,
                    celestiaSubmitter>>

unitVars == <<earlier, result, pricingTiaUsdSource, cachedTiaUsd, readyVars,
              child, backgroundVars>>

vars == <<serverVars, unitVars>>

StoreKeys == {KeyA}

NoQuote == [error |-> "no quote"]
NoRecord == [error |-> "no record"]
NoAnswer == [error |-> "no answer"]
\* The value of last after a step that sends no response.
NoResponse == [kind |-> "none"]

\* No function has been applied.
NoResult == [fn |-> "none"]
\* No Go poster command has been spawned.
NoChild == [pc |-> "none", stdout |-> << >>, stderr |-> "", timedOut |-> FALSE,
            timer |-> "none", remaining |-> 0, signal |-> "none",
            promise |-> [state |-> "pending"]]

\* The server after construction, before any request.
ServerInit ==
    /\ now = 0
    /\ records = << >>
    /\ quoteByIdempotencyKey = << >>
    /\ upstream = 1
    /\ inflight = {}
    /\ last = NoResponse
    /\ submitCount = [k \in StoreKeys |-> 0]
    /\ submissions = {}
    /\ answered = << >>
    /\ issued = << >>
    /\ arrived = 0

\* The facilitator sync has succeeded: the server is ready, no attempt and no
\* retry is pending.
SyncComplete ==
    /\ x402Ready = TRUE
    /\ sync = [pc |-> "done"]
    /\ facilitator = "up"

\* No status has been read, no adapter has been priced, no call is waiting.
BackgroundInit ==
    /\ posterStatus = [defined |-> FALSE]
    /\ quotePromiseByAdapter = << >>
    /\ pending = {}
    /\ celestiaSubmitter = celestiaSubmitMode

\* The parts of the program the request path of a ready server leaves alone.
UnitInit ==
    /\ earlier = NoResult
    /\ result = NoResult
    /\ pricingTiaUsdSource = "fallback"
    /\ cachedTiaUsd = NoCachedTiaUsd
    /\ BackgroundInit
    /\ SyncComplete
    /\ child = NoChild

Init ==
    /\ ServerInit
    /\ UnitInit

\* A request in flight: the request, the await it is suspended at (pc), the
\* quote it holds, whether the hook granted it access without payment, and
\* the creation time of the record it began (-1: none).
\*   "pricing"    the pricing call of quoteForRequest (price callbacks)
\*   "verify"     the verification of the payment by the facilitator
\*   "handler"    access granted by the hook, the handler about to run
\*   "quote"      the pricing call of the handler's getOrCreateQuote
\*   "submitting" submitBlob
InflightRequest(id, req, pc, q, granted, began) ==
    [id |-> id, req |-> req, pc |-> pc, quote |-> q, granted |-> granted,
     began |-> began]

keyOf(r) == headerKey(r.req)
parsedOf(r) == parsedBody[r.req.body]

\* The history of answers, kept for the records that are still stored.
Prune(ans, recs) ==
    [k \in {x \in DOMAIN ans : x \in DOMAIN recs
                               /\ recs[x].createdAtMs = ans[x].began} |-> ans[k]]

\* The history of stored quotes: per key and fingerprint the quote stored
\* last and when, and whether it is the last one stored under the key; kept
\* until the time to live of the quote has passed.
IssuedLive(iss, t) ==
    [k \in {x \in DOMAIN iss : iss[x].storedAt + idempotencyTtlMs > t} |-> iss[k]]

IssuedStore(iss, key, fingerprint, q, t) ==
    [k \in DOMAIN iss \cup {<<key, fingerprint>>} |->
        IF k = <<key, fingerprint>>
          THEN [quote |-> q, storedAt |-> t, latest |-> TRUE]
        ELSE IF k[1] = key THEN [iss[k] EXCEPT !.latest = FALSE]
        ELSE iss[k]]

\* The response of the payment middleware to a hook that aborts: the
\* middleware answers 403 itself, with the reason as the error, and the
\* handler does not run.
abortResponse(reason) ==
    [kind |-> "abort", status |-> 403, body |-> [error |-> reason]]

\* The request kept for a request in flight: the one with the trimmed key and
\* the resolved namespace, which the hook and the handler read alike.
Canonical(req) ==
    LET parsed == parsedBody[req.body]
        body == [data |-> parsed.dataB64, namespace_id |-> parsed.namespaceIdB64]
    IN  IF hasPayment(req)
          THEN [headers |-> [idempotencyKey |-> headerKey(req),
                             paymentSignature |-> req.headers.paymentSignature],
                body |-> body]
          ELSE [headers |-> [idempotencyKey |-> headerKey(req)], body |-> body]

\* The 402 response of the payment middleware: the challenge with the quote
\* of quoteForRequest, or with the configured minimum price when it threw.
challengeResponse(req, q, cached) ==
    [kind |-> "challenge", key |-> headerKey(req), status |-> 402,
     price |-> IF q = NoQuote THEN toPriceString(pricingMinUsd)
               ELSE q.chargedPriceString,
     body |-> [error |-> "Payment Required", quote |-> q],
     cached |-> cached]

\* The response of the handler, with the key and fingerprint of the request
\* and whether the hook had granted it access.
handlerResponse(r, kind, status, body) ==
    [kind |-> kind, key |-> keyOf(r), fingerprint |-> parsedOf(r).fingerprint,
     status |-> status, body |-> body, granted |-> r.granted]

\* A request arrives at the payment middleware, which runs the hook.  A
\* request the hook lets through to payment is priced by quoteForRequest:
\* getOrCreateQuote returns the cached quote or makes its pricing call.  With
\* the quote, a request without payment is answered 402 and the payment of
\* one that carries it is verified.
Arrive(req) ==
    LET hook == onProtectedRequest(req, records, now)
        id == CHOOSE i \in 1..MaxInflight : \A r \in inflight : r.id # i
        key == headerKey(req)
        parsed == parsedBody[req.body]
        hit == quoteCacheHit(quoteByIdempotencyKey, key, parsed.fingerprint, now)
        cachedQuote == quoteByIdempotencyKey[key].quote
    IN  /\ Cardinality(inflight) < MaxInflight
        /\ arrived < MaxRequests
        /\ arrived' = arrived + 1
        /\ records' = hook.recs
        /\ answered' = Prune(answered, hook.recs)
        /\ CASE hook.result = "abort" ->
                  /\ last' = abortResponse(hook.reason)
                  /\ inflight' = inflight
             [] hook.result = "grantAccess" ->
                  /\ last' = NoResponse
                  /\ inflight' = inflight \cup
                       {InflightRequest(id, Canonical(req), "handler", NoQuote, TRUE, -1)}
             [] hook.result = "continue" /\ ~hit ->
                  /\ last' = NoResponse
                  /\ inflight' = inflight \cup
                       {InflightRequest(id, Canonical(req), "pricing", NoQuote, FALSE, -1)}
             [] hook.result = "continue" /\ hit /\ hasPayment(req) ->
                  /\ last' = NoResponse
                  /\ inflight' = inflight \cup
                       {InflightRequest(id, Canonical(req), "verify", cachedQuote,
                                        FALSE, -1)}
             [] hook.result = "continue" /\ hit /\ ~hasPayment(req) ->
                  /\ last' = challengeResponse(req, cachedQuote, TRUE)
                  /\ inflight' = inflight
        /\ UNCHANGED <<unitVars, now, upstream, quoteByIdempotencyKey, submitCount,
                       submissions, issued>>

\* The middleware has the quote of quoteForRequest (or its failure).
AfterPrice(r, q) ==
    IF hasPayment(r.req)
      THEN /\ inflight' = (inflight \ {r}) \cup
                 {[r EXCEPT !.pc = "verify", !.quote = q]}
           /\ last' = NoResponse
      ELSE /\ inflight' = inflight \ {r}
           /\ last' = challengeResponse(r.req, q, FALSE)

\* The pricing call of the middleware returns a quote, which is cached.
PricingReturn(r) ==
    LET q == pricingEngineQuote(upstream, parsedOf(r).payloadBytes)
    IN  /\ r.pc = "pricing"
        /\ quoteByIdempotencyKey' =
             quoteCacheStore(quoteByIdempotencyKey, keyOf(r),
                             parsedOf(r).fingerprint, q, now)
        /\ issued' = IssuedStore(issued, keyOf(r), parsedOf(r).fingerprint, q, now)
        /\ AfterPrice(r, q)
        /\ UNCHANGED <<unitVars, now, upstream, records, submitCount, submissions, answered, arrived>>

\* The pricing call of the middleware throws: nothing is cached.
PricingThrow(r) ==
    /\ r.pc = "pricing"
    /\ AfterPrice(r, NoQuote)
    /\ UNCHANGED <<unitVars, now, upstream, records, quoteByIdempotencyKey, submitCount,
                   submissions, answered, issued, arrived>>

\* The facilitator rejects the payment: 402.
VerifyFail(r) ==
    /\ r.pc = "verify"
    /\ inflight' = inflight \ {r}
    /\ last' = challengeResponse(r.req, r.quote, FALSE)
    /\ UNCHANGED <<unitVars, now, upstream, records, quoteByIdempotencyKey,
                   submitCount, submissions, answered, issued, arrived>>

\* The history of a submitBlob call: the key and fingerprint of the request,
\* the creation time of the record the request began, and the outcome.
Submission(key, fingerprint, began, outcome) ==
    [key |-> key, fingerprint |-> fingerprint, began |-> began,
     outcome |-> outcome]

\* The history once the submitBlob call of r has settled.
Settled(r, outcome) ==
    (submissions \ {Submission(keyOf(r), parsedOf(r).fingerprint, r.began, "pending")})
    \cup {Submission(keyOf(r), parsedOf(r).fingerprint, r.began, outcome)}

\* The handler calls submitBlob.
Submitting(r, q, began) ==
    /\ inflight' = (inflight \ {r}) \cup
         {[r EXCEPT !.pc = "submitting", !.quote = q, !.began = began]}
    /\ submitCount' = [submitCount EXCEPT ![keyOf(r)] = @ + 1]
    /\ submissions' = submissions \cup
         {Submission(keyOf(r), parsedOf(r).fingerprint, began, "pending")}

\* The handler of POST /v1/blobs runs, for a request whose payment the
\* facilitator has verified or which the hook granted access, up to its
\* first await.  It answers from the existing record; or it begins a record
\* and calls getOrCreateQuote, which returns the cached quote (the handler
\* goes on to submitBlob; the read of the mocha gas price in between changes
\* no state) or makes its pricing call.
Handler(r) ==
    LET key == keyOf(r)
        h == blobsHandlerLookup(r.req, records, now)
        hit == quoteCacheHit(quoteByIdempotencyKey, key,
                             parsedOf(r).fingerprint, now)
    IN  /\ r.pc \in {"handler", "verify"}
        /\ records' = h.recs
        /\ answered' = Prune(answered, h.recs)
        /\ CASE h.branch = "begin" /\ hit ->
                  /\ last' = NoResponse
                  /\ Submitting(r, quoteByIdempotencyKey[key].quote, now)
             [] h.branch = "begin" /\ ~hit ->
                  /\ last' = NoResponse
                  /\ inflight' = (inflight \ {r}) \cup
                       {[r EXCEPT !.pc = "quote", !.began = now]}
                  /\ UNCHANGED <<submitCount, submissions, arrived>>
             [] h.branch # "begin" ->
                  /\ inflight' = inflight \ {r}
                  /\ last' = [response |-> handlerResponse(r, h.branch, h.status, h.body),
                              existing |-> IF key \in DOMAIN h.recs
                                             THEN h.recs[key] ELSE NoRecord,
                              first |-> IF key \in DOMAIN answered'
                                          THEN answered'[key] ELSE NoAnswer,
                              kind |-> h.branch]
                  /\ UNCHANGED <<submitCount, submissions, arrived>>
        /\ UNCHANGED <<unitVars, now, upstream, quoteByIdempotencyKey, issued, arrived>>

\* The catch branch of the handler: the record is marked failed and the
\* failure is the response.
Catch(r, error) ==
    LET key == keyOf(r)
        status == failureStatus(error)
        body == failureBody(key, error)
    IN  /\ records' = fail(records, key, status, body, now)
        /\ inflight' = inflight \ {r}
        /\ last' = [response |-> handlerResponse(r, "failed", status, body),
                    error |-> error, began |-> r.began, kind |-> "failed"]
        /\ answered' =
             IF key \in DOMAIN records /\ records[key].createdAtMs = r.began
               THEN MapSet(answered, key,
                           [status |-> status, body |-> body, began |-> r.began])
               ELSE answered

\* The pricing call of the handler returns: the quote is cached and the
\* handler goes on to submitBlob.
QuoteReturn(r) ==
    LET q == pricingEngineQuote(upstream, parsedOf(r).payloadBytes)
    IN  /\ r.pc = "quote"
        /\ quoteByIdempotencyKey' =
             quoteCacheStore(quoteByIdempotencyKey, keyOf(r),
                             parsedOf(r).fingerprint, q, now)
        /\ issued' = IssuedStore(issued, keyOf(r), parsedOf(r).fingerprint, q, now)
        /\ Submitting(r, q, r.began)
        /\ last' = NoResponse
        /\ UNCHANGED <<unitVars, now, upstream, records, answered, arrived>>

\* The pricing call of the handler throws: Promise.all rejects.
QuoteThrow(r) ==
    /\ r.pc = "quote"
    /\ Catch(r, PricingError)
    /\ UNCHANGED <<unitVars, now, upstream, quoteByIdempotencyKey, submitCount,
                   submissions, issued, arrived>>

\* submitBlob returns: the record is completed and 200 is the response.
SubmitReturn(r, submitResult) ==
    LET key == keyOf(r)
        body == successBody(key, parsedOf(r), submitResult, r.quote)
    IN  /\ r.pc = "submitting"
        /\ records' = complete(records, key, 200, body, now)
        /\ inflight' = inflight \ {r}
        /\ last' = [response |-> handlerResponse(r, "completed", 200, body),
                    began |-> r.began, kind |-> "completed"]
        /\ answered' =
             IF key \in DOMAIN records /\ records[key].createdAtMs = r.began
               THEN MapSet(answered, key,
                           [status |-> 200, body |-> body, began |-> r.began])
               ELSE answered
        /\ submissions' = Settled(r, "ok")
        /\ UNCHANGED <<unitVars, now, upstream, quoteByIdempotencyKey, submitCount,
                       issued, arrived>>

\* submitBlob throws.
SubmitThrow(r, error) ==
    /\ r.pc = "submitting"
    /\ Catch(r, error)
    /\ submissions' = Settled(r, "failed")
    /\ UNCHANGED <<unitVars, now, upstream, quoteByIdempotencyKey, submitCount,
                   issued, arrived>>

\* The 60-second interval: the sweep of the store and of the quote cache.
Sweep ==
    /\ records' = cleanup(records, now)
    /\ quoteByIdempotencyKey' = quoteCacheSweep(quoteByIdempotencyKey, now)
    /\ answered' = Prune(answered, records')
    /\ last' = NoResponse
    /\ UNCHANGED <<unitVars, now, upstream, inflight, submitCount, submissions, issued, arrived>>

\* The upstream gas price moves.
UpstreamMove ==
    /\ upstream = 1
    /\ upstream' = 2
    /\ last' = NoResponse
    /\ UNCHANGED <<unitVars, now, records, quoteByIdempotencyKey, inflight,
                   submitCount, submissions, answered, issued, arrived>>

\* Time passes.
Tick ==
    /\ now < MaxTime
    /\ now' = now + 1
    /\ issued' = IssuedLive(issued, now')
    /\ last' = NoResponse
    /\ UNCHANGED <<unitVars, records, quoteByIdempotencyKey, upstream, inflight,
                   submitCount, submissions, answered, arrived>>

Next ==
    \/ Tick
    \/ \E req \in Requests : Arrive(req)
    \/ \E r \in inflight : PricingReturn(r)
    \/ \E r \in inflight : PricingThrow(r)
    \/ \E r \in inflight : VerifyFail(r)
    \/ \E r \in inflight : Handler(r)
    \/ \E r \in inflight : QuoteReturn(r)
    \/ \E r \in inflight : QuoteThrow(r)
    \/ \E r \in inflight : \E o \in submitBlob(r.req.body) :
          o.ok /\ SubmitReturn(r, o.result)
    \/ \E r \in inflight : \E o \in submitBlob(r.req.body) :
          ~o.ok /\ SubmitThrow(r, o.error)
    \/ Sweep

Spec == Init /\ [][Next]_vars

\* The server while the upstream gas price moves.
NextQuote ==
    \/ Next
    \/ UpstreamMove

SpecQuote == Init /\ [][NextQuote]_vars

(***************************************************************************)
(* The properties of POST /v1/blobs.                                       *)
(***************************************************************************)
\* A response body without its idempotency tag.
Untagged(body) == [f \in DOMAIN body \ {"idempotency"} |-> body[f]]

\* The step just taken replayed the stored response of key, and the attempt
\* that began the stored record had answered its caller.
ReplayOfAnswered ==
    /\ last.kind = "replay"
    /\ last.first # NoAnswer

\* C1 Idempotent replay: once the call that began the record of a key has
\* finished with a completed record, a later call with the same key and
\* payload, made while that record is alive, is answered with the status and
\* the body of that first call, tagged replayed = TRUE.
C1_IdempotentReplay ==
    (ReplayOfAnswered /\ last.first.status = 200) =>
        /\ last.response.status = last.first.status
        /\ Untagged(last.response.body) = Untagged(last.first.body)
        /\ last.response.body.idempotency.replayed = TRUE

\* C2 At most one submission per key: submitBlob is invoked at most once for
\* a key, whatever the retries and the concurrent duplicates.
C2_AtMostOneSubmissionPerKey ==
    \A k \in StoreKeys : submitCount[k] <= 1

\* C2 as amended: submitBlob is invoked at most once for each record begun
\* under a key, and two requests that both invoke it began their records
\* more than idempotencyTtlMs apart: the earlier record had expired.
C2_AtMostOneSubmissionPerLiveRecord ==
    /\ \A k \in StoreKeys :
          submitCount[k] = Cardinality({s \in submissions : s.key = k})
    /\ \A s1, s2 \in submissions :
          (s1.key = s2.key /\ s1.began < s2.began) =>
              s2.began - s1.began > idempotencyTtlMs

\* A key was submitted twice, by a retry after the first record expired.
C2_Witness ==
    \E s1, s2 \in submissions :
        /\ s1.key = s2.key
        /\ s1.began # s2.began
        /\ submitCount[s1.key] = 2

\* The rejections that stand for a conflict: the abort of the hook and the
\* response of the handler.
ConflictReason == "Idempotency-Key already used with different payload"

\* C3 Conflict detection: a request whose key has a live record with another
\* fingerprint is rejected with status 409.
C3_ConflictRejectedWith409 ==
    (last.kind \in {"abort", "conflict"} /\
       (IF last.kind = "abort" THEN last.body.error
                               ELSE last.response.body.error) = ConflictReason)
      => (IF last.kind = "abort" THEN last.status
                                 ELSE last.response.status) = 409

\* C4 Failure blocks the no-charge path: after the submission of the attempt
\* that began a record has failed, that record (same key, same fingerprint)
\* is never completed.
C4_FailedNeverCompleted ==
    \A s \in submissions :
        (/\ s.outcome = "failed"
         /\ s.key \in DOMAIN records
         /\ records[s.key].createdAtMs = s.began
         /\ records[s.key].fingerprint = s.fingerprint)
          => records[s.key].status # "completed"

\* C5 Settlement safety: the handler answers below 400 only if submitBlob
\* returned successfully for the key and the fingerprint of the request; a
\* completed record has responseStatus 200, a failed one 413, 502 or 500, a
\* processing one none.
C5_SettlementSafety ==
    /\ (last.kind \in {"completed", "replay"} /\ last.response.status < 400) =>
          \E s \in submissions :
              /\ s.key = last.response.key
              /\ s.fingerprint = last.response.fingerprint
              /\ s.outcome = "ok"
    /\ \A k \in DOMAIN records :
          CASE records[k].status = "completed" -> records[k].responseStatus = 200
            [] records[k].status = "failed" ->
                 records[k].responseStatus \in {413, 502, 500}
            [] records[k].status = "processing" ->
                 "responseStatus" \notin DOMAIN records[k]

\* C6 Record lifecycle: a record is created processing, and once it is
\* completed or failed its status, responseStatus and responseBody stay as
\* they are for as long as the record exists.
C6_RecordLifecycle ==
    [][\A k \in DOMAIN records' :
          IF k \in DOMAIN records /\ records[k].createdAtMs = records'[k].createdAtMs
            THEN records[k].status # "processing" =>
                   /\ records'[k].status = records[k].status
                   /\ records'[k].responseStatus = records[k].responseStatus
                   /\ records'[k].responseBody = records[k].responseBody
            ELSE records'[k].status = "processing"]_vars

\* The record a request with key and fingerprint meets as live and
\* processing.
LiveProcessing(recs, key, fingerprint, t) ==
    /\ key \in DOMAIN recs
    /\ ~isExpired(recs[key], t)
    /\ recs[key].fingerprint = fingerprint
    /\ recs[key].status = "processing"

\* C7 Still in flight: the handler answers a request that has the key and
\* the fingerprint of a live processing record with 409 "still processing";
\* it begins no pricing call and no submission and leaves the record as it
\* is.
C7_StillInFlight ==
    [][\A r \in inflight :
          (/\ LiveProcessing(records, keyOf(r), parsedOf(r).fingerprint, now)
           /\ Handler(r))
            => /\ last'.kind = "processing"
               /\ last'.response.status = 409
               /\ last'.response.body.error =
                    "Request with this Idempotency-Key is still processing"
               /\ last'.response.body.idempotency =
                    idempotencyTag(keyOf(r), TRUE, "processing")
               /\ inflight' = inflight \ {r}
               /\ UNCHANGED <<records, quoteByIdempotencyKey, issued,
                              submitCount, submissions>>]_vars

\* A duplicate was answered "still processing" while the first request was
\* at submitBlob.
C7_Witness ==
    /\ last.kind = "processing"
    /\ last.response.status = 409
    /\ \E r \in inflight : r.pc = "submitting" /\ keyOf(r) = last.response.key
    /\ LiveProcessing(records, last.response.key, last.response.fingerprint, now)

\* C8 Quote stability under retry: within the time to live of the quote a
\* call of getOrCreateQuote returned for a key and fingerprint, every call for
\* that key and fingerprint returns the same quote: the quote a call stores,
\* which is the one it returns, is that of the call before it.
C8_QuoteStableUnderRetry ==
    [][\A kf \in DOMAIN issued :
          kf \in DOMAIN issued' => issued'[kf].quote = issued[kf].quote]_vars

\* C8 as amended: a call of getOrCreateQuote for a key and fingerprint, made
\* while the quote last stored under the key is for that fingerprint and is
\* within its time to live, returns that quote: quoteForRequest prices the
\* 402 challenge or the verification with it, and the handler submits with
\* it.
C8_QuoteStableWhileCached ==
    [][/\ \A req \in Requests :
            LET kf == <<headerKey(req), parsedBody[req.body].fingerprint>>
            IN  (/\ parsedBody[req.body] # ParseError
                 /\ kf \in DOMAIN issued
                 /\ issued[kf].latest
                 /\ onProtectedRequest(req, records, now).result = "continue"
                 /\ Arrive(req))
                  => IF hasPayment(req)
                       THEN \E r \in inflight' \ inflight :
                               r.pc = "verify" /\ r.quote = issued[kf].quote
                       ELSE last' = challengeResponse(req, issued[kf].quote, TRUE)
       /\ \A r \in inflight :
            LET kf == <<keyOf(r), parsedOf(r).fingerprint>>
            IN  (/\ kf \in DOMAIN issued
                 /\ issued[kf].latest
                 /\ blobsHandlerLookup(r.req, records, now).branch = "begin"
                 /\ Handler(r))
                  => \E r2 \in inflight' :
                        /\ r2.id = r.id
                        /\ r2.pc = "submitting"
                        /\ r2.quote = issued[kf].quote]_vars

\* A probe was answered from the cache after the upstream price had moved:
\* the quote of the challenge is not the one the upstream would give now.
C8_Witness ==
    /\ last.kind = "challenge"
    /\ last.cached
    /\ upstream = 2
    /\ last.body.quote # pricingEngineQuote(upstream, last.body.quote.payloadBytes)

\* The checks the hook and the handler make before they look at the store.
RejectedOnValidation(req) ==
    \/ Len(headerKey(req)) = 0
    \/ Len(headerKey(req)) > MaxKeyLength
    \/ parsedBody[req.body] = ParseError
    \/ parsedBody[req.body].payloadBytes > maxPayloadBytes

ValidationReasons ==
    { "Idempotency-Key header is required",
      "Idempotency-Key must be 120 characters or fewer",
      "Invalid request body",
      "Payload exceeds MAX_PAYLOAD_BYTES" }

\* C9 Reject without side effects: a request without a key, with a key of
\* more than 120 characters, with a body that does not parse or with a
\* payload over maxPayloadBytes is rejected; no record is created, changed or
\* removed, no quote is cached, no pricing call and no submission begins.
C9_RejectWithoutSideEffects ==
    [][\A req \in Requests :
          (RejectedOnValidation(req) /\ Arrive(req))
            => /\ last'.kind = "abort"
               /\ last'.status >= 400
               /\ last'.body.error \in ValidationReasons
               /\ UNCHANGED <<records, quoteByIdempotencyKey, issued, inflight,
                              submitCount, submissions>>]_vars

\* A request was rejected on validation while the store held an expired
\* record, which a lookup would have removed.
C9_Witness ==
    /\ last.kind = "abort"
    /\ last.body.error \in ValidationReasons
    /\ \E k \in DOMAIN records : isExpired(records[k], now)

\* C10 Failure classification: the attempt that fails answers 413 for a
\* CelestiaSubmitError with code 21, 502 for any other CelestiaSubmitError
\* and 500 for any other exception, and marks the record it began failed
\* with that response; later callers with the same key are replayed that
\* response for as long as the record is stored.
C10_FailureClassification ==
    /\ last.kind = "failed" =>
          /\ last.response.status =
                (IF last.error.name = "CelestiaSubmitError" /\ last.error.code = 21
                   THEN 413
                 ELSE IF last.error.name = "CelestiaSubmitError" THEN 502
                 ELSE 500)
          /\ (last.response.key \in DOMAIN records
               /\ records[last.response.key].createdAtMs = last.began) =>
                 /\ records[last.response.key].status = "failed"
                 /\ records[last.response.key].responseStatus = last.response.status
                 /\ records[last.response.key].responseBody = last.response.body
    /\ (ReplayOfAnswered /\ last.first.status >= 400) =>
          /\ last.response.status = last.first.status
          /\ Untagged(last.response.body) = Untagged(last.first.body)

(***************************************************************************)
(* The IdempotencyStore on its own: any caller, any order of calls.        *)
(***************************************************************************)
StoreCallKeys == {KeyA, <<"b">>}
StoreCallFingerprints == {parsedBody[b].fingerprint : b \in ValidBodies}

\* What a call of the store leaves alone.
storeFrame == <<unitVars, now, quoteByIdempotencyKey, upstream, inflight,
                submitCount, submissions, answered, issued, arrived>>

\* idempotencyStore.get(key)
StoreGet(key) ==
    /\ records' = get(records, key, now)
    /\ last' = [op |-> "get", key |-> key,
                record |-> IF key \in DOMAIN records' THEN records'[key]
                           ELSE NoRecord]
    /\ UNCHANGED storeFrame

\* idempotencyStore.begin(key, fingerprint)
StoreBegin(key, fingerprint) ==
    /\ records' = begin(records, key, fingerprint, now)
    /\ last' = [op |-> "begin", key |-> key, fingerprint |-> fingerprint,
                created |-> key \notin DOMAIN get(records, key, now),
                record |-> records'[key]]
    /\ UNCHANGED storeFrame

\* idempotencyStore.complete(key, 200, body)
StoreComplete(key) ==
    /\ records' = complete(records, key, 200, [ok |-> TRUE], now)
    /\ last' = [op |-> "complete", key |-> key]
    /\ UNCHANGED storeFrame

\* idempotencyStore.fail(key, 502, body)
StoreFail(key) ==
    /\ records' = fail(records, key, 502, [ok |-> FALSE], now)
    /\ last' = [op |-> "fail", key |-> key]
    /\ UNCHANGED storeFrame

\* idempotencyStore.cleanup()
StoreCleanup ==
    /\ records' = cleanup(records, now)
    /\ last' = [op |-> "cleanup"]
    /\ UNCHANGED storeFrame

NextStore ==
    \/ Tick
    \/ \E key \in StoreCallKeys : StoreGet(key)
    \/ \E key \in StoreCallKeys : \E fingerprint \in StoreCallFingerprints :
          StoreBegin(key, fingerprint)
    \/ \E key \in StoreCallKeys : StoreComplete(key)
    \/ \E key \in StoreCallKeys : StoreFail(key)
    \/ StoreCleanup

SpecStore == Init /\ [][NextStore]_vars

\* The store holds a record of key that was created no more than the TTL ago.
WithinTtl(recs, key, t) ==
    /\ key \in DOMAIN recs
    /\ t - recs[key].createdAtMs <= idempotencyTtlMs

\* One call of the store, seen from outside: what it returned and what it
\* did to the creation times.
StoreCallRespectsTtl ==
    /\ \A k \in DOMAIN records \cap DOMAIN records' :
          records'[k].createdAtMs # records[k].createdAtMs
             => /\ "op" \in DOMAIN last'
                /\ last'.op = "begin"
                /\ last'.key = k
                /\ ~WithinTtl(records, k, now)
    /\ "op" \in DOMAIN last' =>
         CASE last'.op = "get" ->
                last'.record = IF WithinTtl(records, last'.key, now)
                                 THEN records[last'.key] ELSE NoRecord
           [] last'.op = "begin" ->
                IF WithinTtl(records, last'.key, now)
                  THEN /\ ~last'.created
                       /\ last'.record = records[last'.key]
                       /\ records'[last'.key] = records[last'.key]
                  ELSE /\ last'.created
                       /\ last'.record = records'[last'.key]
                       /\ last'.record.status = "processing"
                       /\ last'.record.fingerprint = last'.fingerprint
                       /\ last'.record.createdAtMs = now
           [] last'.op \in {"complete", "fail"} ->
                /\ DOMAIN records' = DOMAIN records
                /\ \A k \in DOMAIN records :
                      records'[k].createdAtMs = records[k].createdAtMs
           [] last'.op = "cleanup" ->
                \A k \in DOMAIN records :
                   WithinTtl(records, k, now)
                      => k \in DOMAIN records' /\ records'[k] = records[k]

\* C11 (TTL from creation): get and begin return a record exactly while
\* now - createdAtMs <= ttl, where createdAtMs is the time begin created it;
\* complete and fail leave the creation time alone; on an expired or missing
\* record get returns nothing and begin creates a fresh processing record.
C11_TtlFromCreation == [][StoreCallRespectsTtl]_vars

\* A completed or failed record, updated after its creation, is returned by
\* get at the last instant of its lifetime.
C11_Witness ==
    /\ "op" \in DOMAIN last
    /\ last.op = "get"
    /\ last.record # NoRecord
    /\ last.record.status \in {"completed", "failed"}
    /\ last.record.updatedAtMs > last.record.createdAtMs
    /\ now - last.record.createdAtMs = idempotencyTtlMs

(***************************************************************************)
(* The PricingEngine on its own: quote() under every answer of the gas     *)
(* estimate, the gas price and the rate source.                            *)
(***************************************************************************)
\* What estimate_for_pfb answers, in thousands of gas: a failed read, or any
\* finite number (the client checks no more than that).
GasAnswers ==
    { [ok |-> FALSE] } \cup { [ok |-> TRUE, value |-> v] : v \in {-90, 70, 90} }
\* What /v1/gas/price answers as the median, in thousandths of utia.
GasPriceAnswers ==
    { [ok |-> FALSE] } \cup { [ok |-> TRUE, value |-> v] : v \in {-4, 8} }

pricingFrame == <<serverVars, readyVars, backgroundVars, child>>

\* The engine is constructed with either rate source.
InitPricing ==
    /\ ServerInit
    /\ earlier = NoResult
    /\ result = NoResult
    /\ pricingTiaUsdSource \in {"coingecko", "fallback"}
    /\ cachedTiaUsd = NoCachedTiaUsd
    /\ BackgroundInit
    /\ SyncComplete
    /\ child = NoChild

\* pricingEngine.quote(payloadBytes): Promise.all of the three reads, then
\* the price.  The rate read completes, and may fill the cache, even when a
\* gas read fails.
PricingEngineCall(payloadBytes, gas, gasPrice, rate) ==
    LET loaded == loadTiaUsd(pricingTiaUsdSource, cachedTiaUsd, now, rate)
        outcome == IF ~gas.ok \/ ~gasPrice.ok \/ ~loaded.ok THEN PricingError
                   ELSE quote(payloadBytes, gas.value, gasPrice.value,
                              loaded.value)
    IN  /\ cachedTiaUsd' = loaded.cached
        /\ result' = [fn |-> "quote", payloadBytes |-> payloadBytes,
                      gas |-> gas, gasPrice |-> gasPrice,
                      rate |-> IF loaded.fetched THEN rate
                               ELSE [kind |-> "not read"],
                      outcome |-> outcome]
        /\ UNCHANGED <<pricingFrame, pricingTiaUsdSource>>

\* One call of quote.
PricingEngineQuote(payloadBytes, gas, gasPrice, rate) ==
    /\ PricingEngineCall(payloadBytes, gas, gasPrice, rate)
    /\ UNCHANGED earlier

\* Time passes for the engine.
PricingTick ==
    /\ now < MaxTime
    /\ now' = now + 1
    /\ UNCHANGED <<records, quoteByIdempotencyKey, upstream, inflight, last,
                   submitCount, submissions, answered, issued, arrived,
                   unitVars>>

NextPricing ==
    \/ PricingTick
    \/ \E payloadBytes \in 1..maxPayloadBytes : \E gas \in GasAnswers :
       \E gasPrice \in GasPriceAnswers : \E rate \in RateAnswers :
          PricingEngineQuote(payloadBytes, gas, gasPrice, rate)

SpecPricing == InitPricing /\ [][NextPricing]_vars

\* The outcome of a call of quote is a quote.
Quoted(r) == r.fn = "quote" /\ r.outcome # PricingError

\* The amount a price string states, in units of 0.0001 USD: "$", the
\* digits of the dollars, ".", four decimals.
RECURSIVE DigitsValue(_)
DigitsValue(str) ==
    IF Len(str) = 0 THEN 0
    ELSE 10 * DigitsValue(SubSeq(str, 1, Len(str) - 1))
           + (CHOOSE d \in 0..9 : Digits(d) = <<str[Len(str)]>>)

IsDigit(c) == \E d \in 0..9 : Digits(d) = <<c>>

PriceStringUnits(str) ==
    IF /\ Len(str) >= 7
       /\ str[1] = "$"
       /\ str[Len(str) - 4] = "."
       /\ \A i \in (2..Len(str)) \ {Len(str) - 4} : IsDigit(str[i])
    THEN DigitsValue(SubSeq(str, 2, Len(str) - 5)) * 10000
           + DigitsValue(SubSeq(str, Len(str) - 3, Len(str)))
    ELSE -1

\* estimatedUsd * (1 + markupBps/10000) + fixedUsd of a quote, in units of
\* 10^-12 USD (exact).
ExactPrice(q) ==
    q.mainnetReference.estimatedGas * q.mainnetReference.gasPriceUtia
        * q.mainnetReference.tiaUsd * (10000 + pricingMarkupBps)
      + pricingFixedUsd * 100000000

RateReadFailed(r) ==
    \/ r.rate.kind \in {"throw", "status"}
    \/ /\ r.rate.kind = "body"
       /\ \/ r.rate.usd # "finite"
          \/ r.rate.value <= 0

\* C13 (silent rate fallback): a call of quote fails only when a gas read
\* failed, never on account of the rate; when the read of the rate failed,
\* the quote returned is priced at the configured fallback rate.
C13_SilentRateFallback ==
    result.fn = "quote" =>
        /\ result.outcome = PricingError
              => ~result.gas.ok \/ ~result.gasPrice.ok
        /\ Quoted(result) /\ RateReadFailed(result)
              => result.outcome.mainnetReference.tiaUsd = tiaUsdFallback

\* A quote at the fallback rate after a failed read of the rate, made while
\* an older rate that was read successfully is still held in the cache.
C13_Witness ==
    /\ Quoted(result)
    /\ RateReadFailed(result)
    /\ cachedTiaUsd # NoCachedTiaUsd
    /\ cachedTiaUsd.value # tiaUsdFallback
    /\ result.outcome.mainnetReference.tiaUsd = tiaUsdFallback

(***************************************************************************)
(* Two calls of quote in a row within the lifetime of a cached rate, the   *)
(* caller keeping the first answer.                                        *)
(***************************************************************************)
\* The rate source fails or answers a plausible rate.
RequoteRateAnswers ==
    { a \in RateAnswers :
        a.kind = "throw" \/ (a.kind = "body" /\ a.usd = "finite" /\ a.value > 0) }

\* A call of quote by a caller that holds the answer of its call before.
Requote(payloadBytes, gas, gasPrice, rate) ==
    /\ PricingEngineCall(payloadBytes, gas, gasPrice, rate)
    /\ earlier' = result

NextRequote ==
    \E payloadBytes \in 1..maxPayloadBytes : \E gas \in GasAnswers :
    \E gasPrice \in GasPriceAnswers : \E rate \in RequoteRateAnswers :
       Requote(payloadBytes, gas, gasPrice, rate)

SpecRequote == InitPricing /\ [][NextRequote]_vars

\* Two quotes for sizes a < b, priced from the same gas price and the same
\* rate and from gas estimates that do not decrease with the size.
ComparableQuotes(qa, qb) ==
    /\ qa.payloadBytes < qb.payloadBytes
    /\ qa.mainnetReference.gasPriceUtia = qb.mainnetReference.gasPriceUtia
    /\ qa.mainnetReference.tiaUsd = qb.mainnetReference.tiaUsd
    /\ qa.mainnetReference.estimatedGas <= qb.mainnetReference.estimatedGas

\* C16 as stated (monotone pricing): for sizes a < b quoted with the same
\* gas price and rate and a gas estimate non-decreasing in the size,
\* chargedUsd(a) <= chargedUsd(b).
C16_MonotonePricing ==
    Quoted(earlier) /\ Quoted(result) =>
        /\ ComparableQuotes(earlier.outcome, result.outcome)
              => earlier.outcome.chargedUsd <= result.outcome.chargedUsd
        /\ ComparableQuotes(result.outcome, earlier.outcome)
              => result.outcome.chargedUsd <= earlier.outcome.chargedUsd

\* C16 as amended: the same, for a gas price that is not negative.
C16_MonotonePricingNonNegative ==
    Quoted(earlier) /\ Quoted(result) =>
        /\ (/\ ComparableQuotes(earlier.outcome, result.outcome)
            /\ result.outcome.mainnetReference.gasPriceUtia >= 0)
              => earlier.outcome.chargedUsd <= result.outcome.chargedUsd
        /\ (/\ ComparableQuotes(result.outcome, earlier.outcome)
            /\ result.outcome.mainnetReference.gasPriceUtia >= 0)
              => result.outcome.chargedUsd <= earlier.outcome.chargedUsd

\* Two comparable quotes at a positive gas price, the larger payload with the
\* larger gas estimate, both charged above the floor, the larger one more.
C16_Witness ==
    /\ Quoted(earlier)
    /\ Quoted(result)
    /\ ComparableQuotes(earlier.outcome, result.outcome)
    /\ result.outcome.mainnetReference.gasPriceUtia > 0
    /\ earlier.outcome.mainnetReference.estimatedGas
          < result.outcome.mainnetReference.estimatedGas
    /\ pricingMinUsd < earlier.outcome.chargedUsd
    /\ earlier.outcome.chargedUsd < result.outcome.chargedUsd

(***************************************************************************)
(* decodeStrictBase64 on its own, applied to every short string over a     *)
(* few characters and to some strings of two groups.                       *)
(***************************************************************************)
MaxB64Len == 4
\* Payload characters of value 0, 16 and 17, the padding, and a character
\* outside the alphabet.
B64TestChars == {"A", "Q", "R", "=", "!"}

B64TestStrings ==
    UNION { [1..n -> B64TestChars] : n \in 0..MaxB64Len }
      \cup { <<"A","A","A","A","Q","Q","=","=">>,
             <<"A","A","A","A","Q","R","=","=">>,
             <<"A","A","=","=","A","A","A","A">>,
             <<"A","A","A","=","A","A","A","=">>,
             <<"Q","Q","Q","Q","Q","Q","Q","Q">> }

\* A string is about to be decoded.
InitBase64 ==
    /\ ServerInit
    /\ earlier = NoResult
    /\ result \in { [fn |-> "input", value |-> s] : s \in B64TestStrings }
    /\ pricingTiaUsdSource = "fallback"
    /\ cachedTiaUsd = NoCachedTiaUsd
    /\ BackgroundInit
    /\ SyncComplete
    /\ child = NoChild

\* decodeStrictBase64(value, fieldName)
DecodeStrictBase64 ==
    /\ result.fn = "input"
    /\ result' = [fn |-> "decodeStrictBase64", value |-> result.value,
                  decoded |-> decodeStrictBase64(result.value)]
    /\ UNCHANGED <<serverVars, earlier, pricingTiaUsdSource, cachedTiaUsd,
                   readyVars, backgroundVars, child>>

NextBase64 == DecodeStrictBase64

SpecBase64 == InitBase64 /\ [][NextBase64]_vars

\* The defects of a string the claim lists: a length that is no multiple of
\* 4, a character outside the alphabet, padding before the last two
\* positions, a payload character after padding, trailing bits that are
\* not zero.
B64Defect(s) ==
    LET n == Len(s)
    IN  \/ n % 4 # 0
        \/ \E i \in 1..n : s[i] # "=" /\ ~isBase64CharCode(s[i])
        \/ \E i \in 1..n : s[i] = "=" /\ i < n - 1
        \/ \E i \in 1..n : \E j \in (i + 1)..n : s[i] = "=" /\ s[j] # "="
        \/ /\ n >= 4
           /\ s[n] = "="
           /\ isBase64CharCode(s[n - 2])
           /\ \/ s[n - 1] = "=" /\ B64Value(s[n - 2]) % 16 # 0
              \/ /\ isBase64CharCode(s[n - 1])
                 /\ B64Value(s[n - 1]) % 4 # 0

\* C19 (canonical base64): decodeStrictBase64 returns bytes only for a
\* string that these bytes, one at least, encode exactly; it throws for
\* every string with a wrong length, a character outside the alphabet,
\* padding out of place, payload after padding or non-zero trailing bits,
\* and for the empty string, and for no other.
C19_CanonicalBase64 ==
    result.fn = "decodeStrictBase64" =>
        /\ result.decoded # Thrown
              => /\ Len(result.decoded) > 0
                 /\ \A i \in 1..Len(result.decoded) :
                       result.decoded[i] \in 0..255
                 /\ B64Encode(result.decoded) = result.value
        /\ result.decoded = Thrown
              <=> B64Defect(result.value) \/ Len(result.value) = 0

\* A string of the right length and alphabet, padded in place, whose last
\* payload character carries bits that are not zero, was rejected.
C19_Witness ==
    /\ result.fn = "decodeStrictBase64"
    /\ result.decoded = Thrown
    /\ B64WellFormed(result.value)
    /\ Len(result.value) > 0

(***************************************************************************)
(* parseBlobRequest on its own: two bodies parsed one after the other.     *)
(***************************************************************************)
\* Three zero bytes and six zero bytes.
DataZero3 == <<"A","A","A","A">>
DataZero6 == <<"A","A","A","A","A","A","A","A">>

ParseData == {DataA, DataZero3, DataZero6, DataNonCanonical}
\* The default namespace, two others, and a string that is not base64.
ParseNamespaces == {celestiaNamespaceIdB64, DataZero3, DataZero6, <<"A">>}

ParseBodies ==
    { [data |-> d] : d \in ParseData }
      \cup { [data |-> d, namespace_id |-> n] :
                d \in ParseData, n \in ParseNamespaces }
      \cup { [data |-> d, namespaceId |-> n] :
                d \in ParseData, n \in ParseNamespaces }
      \cup { [data |-> DataA, namespace_id |-> DataZero3,
              namespaceId |-> DataZero6],
             [data |-> DataA, metadata |-> "m"],
             [data |-> << >>],
             [namespace_id |-> celestiaNamespaceIdB64] }

\* parseBlobRequest(body, config.celestiaNamespaceIdB64)
ParseBlobRequest(body) ==
    /\ earlier' = result
    /\ result' = [fn |-> "parseBlobRequest", body |-> body,
                  value |-> parseBlobRequest(body, celestiaNamespaceIdB64)]
    /\ UNCHANGED <<serverVars, pricingTiaUsdSource, cachedTiaUsd, readyVars, backgroundVars, child>>

NextParse == \E body \in ParseBodies : ParseBlobRequest(body)

SpecParse == Init /\ [][NextParse]_vars

\* The call parsed its body.
Accepted(r) == r.fn = "parseBlobRequest" /\ r.value # ParseError

\* The namespace a body names, or the default.
NamedNamespace(body) ==
    IF "namespace_id" \in DOMAIN body THEN body.namespace_id
    ELSE IF "namespaceId" \in DOMAIN body THEN body.namespaceId
    ELSE celestiaNamespaceIdB64

\* C18 (fingerprint purity): the fingerprints of two accepted bodies are
\* equal exactly when the bodies name the same namespace (the default where
\* none is named) and hold the same data, whatever else they hold; a parse
\* returns a result with all its fields or fails, and changes nothing else.
C18_FingerprintPurity ==
    /\ result.fn = "parseBlobRequest" =>
          \/ result.value = ParseError
          \/ /\ DOMAIN result.value
                  = {"namespaceIdB64", "dataB64", "payloadBytes", "fingerprint"}
             /\ result.value.namespaceIdB64 = NamedNamespace(result.body)
             /\ result.value.dataB64 = result.body.data
    /\ Accepted(earlier) /\ Accepted(result) =>
          (earlier.value.fingerprint = result.value.fingerprint
             <=> /\ NamedNamespace(earlier.body) = NamedNamespace(result.body)
                 /\ earlier.body.data = result.body.data)
    /\ serverVars = <<0, << >>, << >>, 1, {}, NoResponse,
                      [k \in StoreKeys |-> 0], {}, << >>, << >>, 0>>

\* A body without a namespace and a body naming the default namespace, the
\* same data in both, got the same fingerprint.
C18_Witness ==
    /\ Accepted(earlier)
    /\ Accepted(result)
    /\ DOMAIN earlier.body = {"data"}
    /\ "namespaceId" \in DOMAIN result.body
    /\ earlier.value.fingerprint = result.value.fingerprint

(***************************************************************************)
(* MockCelestiaSubmitter.submitBlob on its own: two submissions, at any    *)
(* times, of inputs the parser accepted.                                   *)
(***************************************************************************)
\* submitBlob of the mock hashing namespace and data without the separator.
MockSubmitBlobNoSeparator(input, t) ==
    [mode   |-> "mock",
     txHash |-> Sha256Hex(input.namespaceIdB64 \o input.dataB64, "upper"),
     height |-> t,
     code   |-> 0]

\* MockCelestiaSubmitter.submitBlob(input) at time t (the height is the time
\* in seconds, here in ticks).
MockSubmitBlob(input, t) ==
    [mode   |-> "mock",
     txHash |-> Sha256Hex(input.namespaceIdB64 \o <<"\n">> \o input.dataB64,
                          "upper"),
     height |-> t,
     code   |-> 0]

\* The inputs the handler may pass: namespace and data of a parsed body.
MockInputs ==
    { [namespaceIdB64 |-> parseBlobRequest(b, celestiaNamespaceIdB64).namespaceIdB64,
       dataB64 |-> parseBlobRequest(b, celestiaNamespaceIdB64).dataB64] :
        b \in { x \in ParseBodies :
                  parseBlobRequest(x, celestiaNamespaceIdB64) # ParseError } }

\* await submitter.submitBlob(input), the submitter being the mock
MockSubmit(input) ==
    /\ earlier' = result
    /\ result' = [fn |-> "submitBlob", input |-> input,
                  value |-> MockSubmitBlob(input, now)]
    /\ UNCHANGED <<serverVars, pricingTiaUsdSource, cachedTiaUsd, readyVars, backgroundVars, child>>

NextMock ==
    \/ PricingTick
    \/ \E input \in MockInputs : MockSubmit(input)

SpecMock == Init /\ [][NextMock]_vars

\* C17 (simulated backend determinism): every submission to the mock
\* succeeds with code 0; two submissions return the same txHash exactly when
\* they were given the same namespace and the same data.
C17_MockDeterminism ==
    /\ result.fn = "submitBlob" =>
          result.value.code = 0 /\ result.value.mode = "mock"
    /\ earlier.fn = "submitBlob" /\ result.fn = "submitBlob" =>
          (earlier.value.txHash = result.value.txHash
             <=> /\ earlier.input.namespaceIdB64 = result.input.namespaceIdB64
                 /\ earlier.input.dataB64 = result.input.dataB64)

\* The same namespace and data submitted at two different times: the same
\* txHash at two heights.
C17_Witness ==
    /\ earlier.fn = "submitBlob"
    /\ result.fn = "submitBlob"
    /\ earlier.input = result.input
    /\ earlier.value.height # result.value.height
    /\ earlier.value.txHash = result.value.txHash

(***************************************************************************)
(* Readiness (src/src/index.ts): syncFacilitatorSupport and the gate at    *)
(* the head of the onProtectedRequest hook.                                *)
(***************************************************************************)
\* The delay of the retry of a failed sync (10 seconds), in ticks.
syncRetryMs == 2

NotReadyReason == "Payment backend not ready yet. Retry in a few seconds."

\* The hook checking the key before the readiness flag.
protectedRequestHookKeyFirst(ready, req, recs, t) ==
    IF Len(headerKey(req)) = 0
      THEN [result |-> "abort", recs |-> recs,
            reason |-> "Idempotency-Key header is required"]
    ELSE IF ~ready
      THEN [result |-> "abort", recs |-> recs, reason |-> NotReadyReason]
    ELSE onProtectedRequest(req, recs, t)

\* The onProtectedRequest hook from its first line: the readiness gate, then
\* the checks of the key, the body and the store.
protectedRequestHook(ready, req, recs, t) ==
    IF ~ready
      THEN [result |-> "abort", recs |-> recs, reason |-> NotReadyReason]
    ELSE onProtectedRequest(req, recs, t)

\* The module has been loaded: the flag is false, the first call of
\* syncFacilitatorSupport awaits httpServer.initialize().
InitReady ==
    /\ ServerInit
    /\ earlier = NoResult
    /\ result = NoResult
    /\ pricingTiaUsdSource = "fallback"
    /\ cachedTiaUsd = NoCachedTiaUsd
    /\ BackgroundInit
    /\ child = NoChild
    /\ x402Ready = FALSE
    /\ sync = [pc |-> "initializing"]
    /\ facilitator \in {"up", "down"}

readyFrame == <<earlier, result, pricingTiaUsdSource, cachedTiaUsd, child, backgroundVars>>

\* await httpServer.initialize() returns: the flag is set, nothing is
\* scheduled.
InitializeResolves ==
    /\ sync.pc = "initializing"
    /\ facilitator = "up"
    /\ x402Ready' = TRUE
    /\ sync' = [pc |-> "done"]
    /\ UNCHANGED <<serverVars, readyFrame, facilitator>>

\* await httpServer.initialize() throws: the flag is cleared and a retry is
\* scheduled.
InitializeRejects ==
    /\ sync.pc = "initializing"
    /\ facilitator = "down"
    /\ x402Ready' = FALSE
    /\ sync' = [pc |-> "timer", remaining |-> syncRetryMs]
    /\ UNCHANGED <<serverVars, readyFrame, facilitator>>

\* Time passes for the retry timer.
RetryTimerRuns ==
    /\ sync.pc = "timer"
    /\ sync.remaining > 0
    /\ sync' = [sync EXCEPT !.remaining = @ - 1]
    /\ UNCHANGED <<serverVars, readyFrame, x402Ready, facilitator>>

\* The retry timer fires: syncFacilitatorSupport is called again.
RetryTimerFires ==
    /\ sync.pc = "timer"
    /\ sync.remaining = 0
    /\ sync' = [pc |-> "initializing"]
    /\ UNCHANGED <<serverVars, readyFrame, x402Ready, facilitator>>

\* The facilitator becomes reachable or unreachable.
FacilitatorChanges ==
    /\ facilitator' = IF facilitator = "up" THEN "down" ELSE "up"
    /\ UNCHANGED <<serverVars, readyFrame, x402Ready, sync>>

\* A request to the protected route reaches the hook.
ProtectedRequest(req) ==
    LET hook == protectedRequestHook(x402Ready, req, records, now)
    IN  /\ arrived < MaxRequests
        /\ arrived' = arrived + 1
        /\ records' = hook.recs
        /\ last' = IF hook.result = "abort" THEN abortResponse(hook.reason)
                   ELSE [kind |-> "admitted", hook |-> hook.result,
                         req |-> req]
        /\ UNCHANGED <<now, quoteByIdempotencyKey, upstream, inflight,
                       submitCount, submissions, answered, issued, unitVars>>

NextReady ==
    \/ InitializeResolves
    \/ InitializeRejects
    \/ RetryTimerRuns
    \/ RetryTimerFires
    \/ FacilitatorChanges
    \/ \E req \in Requests : ProtectedRequest(req)

\* The event loop runs every callback that is due: a settled promise is
\* resumed, a timer runs down and fires.
SpecReady ==
    /\ InitReady
    /\ [][NextReady]_vars
    /\ WF_vars(InitializeResolves)
    /\ WF_vars(InitializeRejects)
    /\ WF_vars(RetryTimerRuns)
    /\ WF_vars(RetryTimerFires)

\* While the flag is false a request is answered with the abort of the gate
\* and nothing is looked up or changed.
GateHolds ==
    ~x402Ready /\ arrived' # arrived
        => /\ last' = abortResponse(NotReadyReason)
           /\ UNCHANGED <<records, quoteByIdempotencyKey, inflight>>

\* A failed attempt schedules its retry for the full delay, and the next
\* attempt starts only when the delay has passed.
RetryAfterDelay ==
    /\ sync.pc = "initializing" /\ sync'.pc # "initializing" /\ ~x402Ready'
          => sync' = [pc |-> "timer", remaining |-> syncRetryMs]
    /\ sync.pc = "timer" /\ sync'.pc # "timer"
          => sync.remaining = 0 /\ sync'.pc = "initializing"

\* C14 (readiness gating): while x402Ready is false every protected request
\* is aborted by the gate before any check or lookup; a failed sync is
\* retried after the delay, and if initialize succeeds from some time on
\* then x402Ready becomes true; once true it stays true, and then no sync
\* attempt is pending or scheduled.
C14_ReadinessGating ==
    /\ [][GateHolds]_vars
    /\ [][RetryAfterDelay]_vars
    /\ [][x402Ready => x402Ready']_vars
    /\ [](x402Ready => sync.pc = "done")
    /\ (<>[](facilitator = "up") => <>x402Ready)

\* The server is ready, and the last request it saw was aborted by the gate.
C14_Witness ==
    /\ x402Ready
    /\ last = abortResponse(NotReadyReason)

(***************************************************************************)
(* GoPosterSubmitter.invoke (src/src/index.ts): one Go poster command, its *)
(* events and the promise of the invocation.  The stdout collected is the  *)
(* sequence of its lines: a response with ok, a response with ok: false,   *)
(* or a line that is not JSON.                                             *)
(***************************************************************************)
\* config.timeoutMs, in ticks
goPosterTimeoutMs == 2
MaxStdoutLines == 2

\* A line of stdout: a log line, which is no JSON, or a one-line JSON
\* response with its ok flag ("true", "false" or "absent"), its error
\* message ("" when absent), its code (NoCode when absent) and its tx_hash
\* ("" when absent).
NoCode == [absent |-> TRUE]
LogLine == [json |-> FALSE]
Response(ok, error, code, txHash) ==
    [json |-> TRUE, ok |-> ok, error |-> error, code |-> code,
     tx_hash |-> txHash]
OkLine == Response("true", "", NoCode, "TXHASH")
PlainLine == Response("absent", "", NoCode, "TXHASH")
NoHashLine == Response("true", "", NoCode, "")
TxFailedLine == Response("true", "", [absent |-> FALSE, value |-> 5], "")
NotOkLine ==
    Response("false", "insufficient funds", [absent |-> FALSE, value |-> 7], "")
BareNotOkLine == Response("false", "", NoCode, "")

StdoutLines ==
    {LogLine, OkLine, PlainLine, NoHashLine, TxFailedLine, NotOkLine,
     BareNotOkLine}
\* What stderr holds at the close: nothing, or a message.
StderrTexts == {"", "exec: no such key"}
\* The exit code the close event reports; -1 stands for null (ended by a
\* signal).
ExitCodes == {0, 1, -1}

Pending == [state |-> "pending"]
Resolved(value) == [state |-> "resolved", value |-> value]
\* reject(new CelestiaSubmitError(message)), the code undefined
Rejected(message) ==
    [state |-> "rejected", name |-> "CelestiaSubmitError", message |-> message]
\* reject(new CelestiaSubmitError(message, code))
RejectedWithCode(message, code) ==
    [state |-> "rejected", name |-> "CelestiaSubmitError", message |-> message,
     code |-> code]

\* resolve and reject of a promise: the first call settles it, later calls
\* do nothing.
settle(promise, outcome) == IF promise = Pending THEN outcome ELSE promise

\* parseGoPosterResponse(stdout): undefined for an empty stdout; the whole
\* of stdout when it is one JSON value, which for one-line values is a
\* stdout of one JSON line; else the response of the last line, and it throws
\* when that line is not JSON.
parseGoPosterResponse(stdout) ==
    IF Len(stdout) = 0 THEN [parsed |-> "undefined"]
    ELSE IF Len(stdout) = 1 /\ stdout[1].json
      THEN [parsed |-> "response", response |-> stdout[1]]
    ELSE IF ~stdout[Len(stdout)].json THEN [parsed |-> "throws"]
    ELSE [parsed |-> "response", response |-> stdout[Len(stdout)]]

\* parsed?.error || stderr.trim() || `Go poster command exited with code`
exitMessage(parsed, stderr) ==
    IF parsed.parsed = "response" /\ parsed.response.error # ""
      THEN parsed.response.error
    ELSE IF stderr # "" THEN stderr
    ELSE "Go poster command exited with code"

\* The rejection of a close with a code other than 0: the code is the exit
\* code, undefined when the close reports null.
exitRejection(parsed, stderr, code) ==
    IF code = -1 THEN Rejected(exitMessage(parsed, stderr))
    ELSE RejectedWithCode(exitMessage(parsed, stderr), code)

\* The rejection of a response whose ok is false.
notOkRejection(response) ==
    LET message == IF response.error # "" THEN response.error
                   ELSE "Go poster command returned error"
    IN  IF response.code.absent THEN Rejected(message)
        ELSE RejectedWithCode(message, response.code.value)

\* The close handler without its check of timedOut.
closeOutcomeNoTimedOut(timedOut, stdout, stderr, code) ==
    LET parsed == parseGoPosterResponse(stdout)
    IN  IF parsed.parsed = "throws"
          THEN Rejected("Go poster command returned invalid JSON")
        ELSE IF code # 0
          THEN exitRejection(parsed, stderr, code)
        ELSE IF parsed.parsed = "undefined"
          THEN Rejected("Go poster command returned empty response")
        ELSE IF parsed.response.ok = "false"
          THEN notOkRejection(parsed.response)
        ELSE Resolved(parsed.response)

\* The close handler: what it rejects or resolves the promise with.
closeOutcome(timedOut, stdout, stderr, code) ==
    LET parsed == parseGoPosterResponse(stdout)
    IN  IF timedOut
          THEN Rejected("Go poster command timed out")
        ELSE IF parsed.parsed = "throws"
          THEN Rejected("Go poster command returned invalid JSON")
        ELSE IF code # 0
          THEN exitRejection(parsed, stderr, code)
        ELSE IF parsed.parsed = "undefined"
          THEN Rejected("Go poster command returned empty response")
        ELSE IF parsed.response.ok = "false"
          THEN notOkRejection(parsed.response)
        ELSE Resolved(parsed.response)

posterFrame == <<serverVars, earlier, result, pricingTiaUsdSource,
                 cachedTiaUsd, readyVars, backgroundVars>>

\* invoke(request): the command is spawned, or fails to start (the error
\* event is then due before any timer); the timer is set.
Invoke ==
    /\ child = NoChild
    /\ \E pc \in {"running", "failing"} :
          child' = [child EXCEPT !.pc = pc, !.timer = "set",
                                 !.remaining = goPosterTimeoutMs]
    /\ UNCHANGED posterFrame

\* child.stdout.on("data"): a line is collected; lines still arrive after
\* the kill.
StdoutData(line) ==
    /\ child.pc \in {"running", "killed"}
    /\ Len(child.stdout) < MaxStdoutLines
    /\ child' = [child EXCEPT !.stdout = Append(@, line)]
    /\ UNCHANGED posterFrame

\* child.stderr.on("data"): the text is collected.
StderrData(text) ==
    /\ child.pc \in {"running", "killed"}
    /\ child.stderr = ""
    /\ text # ""
    /\ child' = [child EXCEPT !.stderr = text]
    /\ UNCHANGED posterFrame

\* child.on("error"): the command failed to start.
ChildError ==
    /\ child.pc = "failing"
    /\ child' = [child EXCEPT
                   !.pc = "failed",
                   !.timer = "cleared",
                   !.promise = settle(@, Rejected("Failed to start Go poster command"))]
    /\ UNCHANGED posterFrame

\* Time passes while the timer is set.
TimeoutRuns ==
    /\ child.pc = "running"
    /\ child.timer = "set"
    /\ child.remaining > 0
    /\ child' = [child EXCEPT !.remaining = @ - 1]
    /\ UNCHANGED posterFrame

\* The timer fires: timedOut is set and the child is killed.
TimeoutFires ==
    /\ child.pc = "running"
    /\ child.timer = "set"
    /\ child.remaining = 0
    /\ child' = [child EXCEPT !.pc = "killed", !.timer = "fired",
                              !.timedOut = TRUE, !.signal = "SIGKILL"]
    /\ UNCHANGED posterFrame

\* child.on("close") of a command that ended by itself, or after its failure
\* to start.
ChildCloses(code) ==
    /\ child.pc \in {"running", "failed"}
    /\ child' = [child EXCEPT
                   !.pc = "closed",
                   !.timer = "cleared",
                   !.promise = settle(@, closeOutcome(child.timedOut,
                                                      child.stdout,
                                                      child.stderr, code))]
    /\ UNCHANGED posterFrame

\* child.on("close") of a command that was killed; it may have ended with a
\* code of its own just before.
KilledChildCloses(code) ==
    /\ child.pc = "killed"
    /\ child' = [child EXCEPT
                   !.pc = "closed",
                   !.promise = settle(@, closeOutcome(child.timedOut,
                                                      child.stdout,
                                                      child.stderr, code))]
    /\ UNCHANGED posterFrame

NextPoster ==
    \/ Invoke
    \/ \E line \in StdoutLines : StdoutData(line)
    \/ \E text \in StderrTexts : StderrData(text)
    \/ ChildError
    \/ TimeoutRuns
    \/ TimeoutFires
    \/ \E code \in ExitCodes : ChildCloses(code)
    \/ \E code \in ExitCodes : KilledChildCloses(code)

\* The event loop runs the callbacks that are due, time passes, and a
\* process that was sent SIGKILL ends.
SpecPoster ==
    /\ Init
    /\ [][NextPoster]_vars
    /\ WF_vars(ChildError)
    /\ WF_vars(TimeoutRuns)
    /\ WF_vars(TimeoutFires)
    /\ WF_vars(\E code \in ExitCodes : KilledChildCloses(code))

Invoked == child.pc # "none"

\* C15 (subprocess timeout and settlement): the promise of an invocation is
\* settled, and settled once; when the timer fired before the close, the
\* child was sent SIGKILL and the promise is rejected with the timeout
\* error whatever stdout and the exit code are; otherwise the timer is
\* cleared once the child has closed or failed to start.
C15_TimeoutAndSettlement ==
    /\ [][Invoked /\ child.promise # Pending
             => child'.promise = child.promise]_vars
    /\ [](Invoked => <>(child.promise # Pending))
    /\ [](Invoked /\ child.timedOut => child.signal = "SIGKILL")
    /\ [](Invoked /\ child.timedOut /\ child.pc = "closed"
             => child.promise = Rejected("Go poster command timed out"))
    /\ [](Invoked /\ ~child.timedOut /\ child.pc \in {"closed", "failed"}
             => child.timer = "cleared")
    /\ [](Invoked /\ child.pc \in {"closed", "failed"}
             => child.promise # Pending)

\* A killed command closed with exit code 0 and a well-formed response on
\* stdout: the invocation is rejected with the timeout error.
C15_Witness ==
    /\ Invoked
    /\ child.pc = "closed"
    /\ child.timedOut
    /\ Len(child.stdout) > 0
    /\ child.stdout[Len(child.stdout)] = OkLine
    /\ child.promise = Rejected("Go poster command timed out")

(***************************************************************************)
(* Concurrent duplicates of POST /v1/blobs.                                *)
(***************************************************************************)
\* Another request in flight with the key and the payload of r that, like r,
\* passed the hook when the store held no record of the key.
ConcurrentDuplicate(r, r2) ==
    /\ r2.id # r.id
    /\ keyOf(r2) = keyOf(r)
    /\ parsedOf(r2).fingerprint = parsedOf(r).fingerprint
    /\ ~r.granted
    /\ ~r2.granted

BeginCalled == "op" \in DOMAIN last' /\ last'.op = "begin"

\* The record begin inserts for key with fingerprint at time t.
FreshRecord(key, fingerprint, t) ==
    [key         |-> key,
     fingerprint |-> fingerprint,
     status      |-> "processing",
     createdAtMs |-> t,
     updatedAtMs |-> t]

\* What a call of begin may do to the store and what it returns.
BeginIsIdempotent ==
    BeginCalled =>
      /\ \A other \in DOMAIN records \ {last'.key} :
            other \in DOMAIN records' /\ records'[other] = records[other]
      /\ DOMAIN records' \ {last'.key} = DOMAIN records \ {last'.key}
      /\ IF WithinTtl(records, last'.key, now)
           THEN /\ records' = records
                /\ last'.record = records[last'.key]
           ELSE /\ last'.key \in DOMAIN records'
                /\ records'[last'.key] =
                     FreshRecord(last'.key, last'.fingerprint, now)
                /\ last'.record = records'[last'.key]

\* C21 (begin is idempotent): begin on a key with a live record returns that
\* record with every field unchanged, also when the fingerprint given differs
\* from the stored one, and leaves the store unchanged; on a key with no live
\* record it inserts one new processing record with the given fingerprint and
\* createdAtMs = updatedAtMs = now, and changes no other key.
C21_BeginIdempotent == [][BeginIsIdempotent]_vars

\* begin was called with another fingerprint on a live record, while the
\* store held an expired record of another key.
C21_Witness ==
    /\ "op" \in DOMAIN last
    /\ last.op = "begin"
    /\ ~last.created
    /\ last.record.fingerprint # last.fingerprint
    /\ \E other \in DOMAIN records :
          other # last.key /\ isExpired(records[other], now)


(***************************************************************************)
(* C22: complete and fail on missing records.                              *)
(***************************************************************************)
\* The step is a call of complete or of fail.
TerminalCalled == "op" \in DOMAIN last' /\ last'.op \in {"complete", "fail"}

\* The fields of a record that complete and fail do not write.
KeptFields(record) ==
    <<record.key, record.fingerprint, record.createdAtMs>>

\* complete and fail on a key with no live record leave the whole store as
\* it was; on a live record they write only the status, the response and the
\* update time of that key's record.
TerminalNoOpUnlessLive ==
    TerminalCalled =>
      /\ DOMAIN records' = DOMAIN records
      /\ \A other \in DOMAIN records \ {last'.key} :
            records'[other] = records[other]
      /\ IF WithinTtl(records, last'.key, now)
           THEN KeptFields(records'[last'.key]) = KeptFields(records[last'.key])
           ELSE records' = records

\* complete and fail on a key the Map does not hold leave the whole store as
\* it was; on a record the Map holds, live or past its TTL, they write only
\* the status, the response and the update time of that key's record.
TerminalNoOpUnlessHeld ==
    TerminalCalled =>
      /\ DOMAIN records' = DOMAIN records
      /\ \A other \in DOMAIN records \ {last'.key} :
            records'[other] = records[other]
      /\ last'.key \notin DOMAIN records => records' = records
      /\ last'.key \in DOMAIN records =>
            /\ KeptFields(records'[last'.key]) = KeptFields(records[last'.key])
            /\ records'[last'.key].status =
                 (IF last'.op = "complete" THEN "completed" ELSE "failed")
            /\ records'[last'.key].updatedAtMs = now

\* C22 (complete/fail are no-ops on missing records), as stated: called for
\* a key that was never begun, or whose record has already expired, complete
\* and fail leave the whole store unchanged and create no record; called on
\* an existing record they change only status, responseStatus, responseBody
\* and updatedAtMs of that key's record.
C22_TerminalNoOpOnMissing == [][TerminalNoOpUnlessLive]_vars

\* C22, amended: complete and fail are no-ops exactly when the Map holds no
\* record of the key (never begun, or expired and already deleted by get,
\* begin or cleanup); a record that is past its TTL but still in the Map is
\* written like a live one, and in every case only status, responseStatus,
\* responseBody and updatedAtMs of that key's record change.
C22_TerminalNoOpOnAbsent == [][TerminalNoOpUnlessHeld]_vars

\* complete or fail has just written a record that was already past its TTL.
C22_Witness ==
    /\ "op" \in DOMAIN last
    /\ last.op \in {"complete", "fail"}
    /\ last.key \in DOMAIN records
    /\ isExpired(records[last.key], now)
    /\ records[last.key].updatedAtMs = now


(***************************************************************************)
(* getOrCreateQuote and POST /v1/quote on their own                        *)
(* (src/src/index.ts): getOrCreateQuote called with any key or with none,  *)
(* its pricing call pending while time passes, the upstream moves and the  *)
(* interval sweeps.                                                        *)
(***************************************************************************)
\* The idempotencyKey argument: undefined, or a string.
Undefined == [defined |-> FALSE]
Defined(str) == [defined |-> TRUE, value |-> str]

\* idempotencyKey?.trim(); undefined and "" are both falsy, and both are the
\* empty string here.
normalizedKeyOf(idempotencyKey) ==
    IF idempotencyKey.defined THEN trim(idempotencyKey.value) ELSE << >>

QuoteCallKeys == {Undefined, Defined(KeyA), Defined(KeyPaddedA), Defined(KeyBlank)}
QuoteCallParsed == {parsedBody[b] : b \in ValidBodies}

\* getOrCreateQuote has not been called.
NoQuoteCall ==
    [fn |-> "getOrCreateQuote", pc |-> "idle", parsed |-> ParseError,
     idempotencyKey |-> Undefined, quote |-> NoQuote, cached |-> FALSE]

InitGetQuote ==
    /\ ServerInit
    /\ earlier = NoResult
    /\ result = NoQuoteCall
    /\ pricingTiaUsdSource = "fallback"
    /\ cachedTiaUsd = NoCachedTiaUsd
    /\ BackgroundInit
    /\ SyncComplete
    /\ child = NoChild

\* What a call of getOrCreateQuote or of the quote route leaves alone.
quoteCallFrame == <<earlier, pricingTiaUsdSource, cachedTiaUsd, readyVars, backgroundVars, child,
                    now, upstream, inflight, submitCount, submissions,
                    answered, issued, arrived>>

\* getOrCreateQuote(parsed, idempotencyKey) up to its await: the cached quote
\* is returned, or pricingEngine.quote is called.
GetOrCreateQuoteCall(parsed, idempotencyKey) ==
    LET normalizedKey == normalizedKeyOf(idempotencyKey)
        hit == quoteCacheHit(quoteByIdempotencyKey, normalizedKey,
                             parsed.fingerprint, now)
    IN  /\ result.pc # "pricing"
        /\ result' = [fn |-> "getOrCreateQuote",
                      pc |-> IF hit THEN "returned" ELSE "pricing",
                      parsed |-> parsed,
                      idempotencyKey |-> idempotencyKey,
                      quote |-> IF hit
                                  THEN quoteByIdempotencyKey[normalizedKey].quote
                                  ELSE NoQuote,
                      cached |-> hit]
        /\ last' = [op |-> "call"]
        /\ UNCHANGED <<records, quoteByIdempotencyKey, quoteCallFrame>>

\* pricingEngine.quote resolves: the quote is stored under the key, if there
\* is one, and returned.
GetOrCreateQuoteResolves ==
    LET q == pricingEngineQuote(upstream, result.parsed.payloadBytes)
    IN  /\ result.pc = "pricing"
        /\ quoteByIdempotencyKey' =
             quoteCacheStore(quoteByIdempotencyKey,
                             normalizedKeyOf(result.idempotencyKey),
                             result.parsed.fingerprint, q, now)
        /\ result' = [result EXCEPT !.pc = "returned", !.quote = q]
        /\ last' = [op |-> "resolve"]
        /\ UNCHANGED <<records, quoteCallFrame>>

\* pricingEngine.quote rejects: getOrCreateQuote rejects with it.
GetOrCreateQuoteRejects ==
    /\ result.pc = "pricing"
    /\ result' = [result EXCEPT !.pc = "threw"]
    /\ last' = [op |-> "reject"]
    /\ UNCHANGED <<records, quoteByIdempotencyKey, quoteCallFrame>>

\* POST /v1/quote: the body is parsed and measured, the pricing engine is
\* asked and the quote is the response; priced tells whether the engine
\* answered.
QuoteRoute(req, priced) ==
    LET parsed == parsedBody[req.body]
    IN  /\ last' =
             IF parsed = ParseError
               THEN [op |-> "quoteRoute", req |-> req, status |-> 400,
                     body |-> [error |-> "Invalid quote request"]]
             ELSE IF parsed.payloadBytes > maxPayloadBytes
               THEN [op |-> "quoteRoute", req |-> req, status |-> 413,
                     body |-> [error |-> "Payload too large"]]
             ELSE IF ~priced
               THEN [op |-> "quoteRoute", req |-> req, status |-> 400,
                     body |-> [error |-> "Invalid quote request"]]
             ELSE [op |-> "quoteRoute", req |-> req, status |-> 200,
                   body |-> [payloadBytes |-> parsed.payloadBytes,
                             quote |-> pricingEngineQuote(upstream,
                                                          parsed.payloadBytes)]]
        /\ UNCHANGED <<records, quoteByIdempotencyKey, result, quoteCallFrame>>

\* The 60-second interval: idempotencyStore.cleanup(), then the expired
\* entries of the quote cache are deleted.
IntervalSweep ==
    /\ records' = cleanup(records, now)
    /\ quoteByIdempotencyKey' = quoteCacheSweep(quoteByIdempotencyKey, now)
    /\ last' = [op |-> "sweep",
                deletedRecords |-> DOMAIN records \ DOMAIN records',
                deletedQuotes |-> DOMAIN quoteByIdempotencyKey
                                    \ DOMAIN quoteByIdempotencyKey']
    /\ UNCHANGED <<result, quoteCallFrame>>

NextGetQuote ==
    \/ Tick
    \/ UpstreamMove
    \/ \E parsed \in QuoteCallParsed : \E idempotencyKey \in QuoteCallKeys :
          GetOrCreateQuoteCall(parsed, idempotencyKey)
    \/ GetOrCreateQuoteResolves
    \/ GetOrCreateQuoteRejects
    \/ \E req \in Requests : \E priced \in BOOLEAN : QuoteRoute(req, priced)
    \/ IntervalSweep

SpecGetQuote == InitGetQuote /\ [][NextGetQuote]_vars


(***************************************************************************)
(* C25: the hit rule of the quote cache.                                   *)
(***************************************************************************)
\* The step is the given step of a call of getOrCreateQuote.
QuoteStep(op) == "op" \in DOMAIN last' /\ last'.op = op

\* The four conditions of a hit, on the cache as the call finds it.
HitConditions(idempotencyKey, parsed) ==
    /\ idempotencyKey.defined
    /\ trim(idempotencyKey.value) # << >>
    /\ trim(idempotencyKey.value) \in DOMAIN quoteByIdempotencyKey
    /\ quoteByIdempotencyKey[trim(idempotencyKey.value)].fingerprint
          = parsed.fingerprint
    /\ quoteByIdempotencyKey[trim(idempotencyKey.value)].expiresAt > now

\* A call returns the cached quote exactly under the four conditions, and
\* asks the pricing engine otherwise; the call itself writes nothing.
CachedOnlyOnHit ==
    QuoteStep("call") =>
      /\ quoteByIdempotencyKey' = quoteByIdempotencyKey
      /\ IF HitConditions(result'.idempotencyKey, result'.parsed)
           THEN /\ result'.pc = "returned"
                /\ result'.cached
                /\ result'.quote =
                     quoteByIdempotencyKey[trim(result'.idempotencyKey.value)].quote
           ELSE /\ result'.pc = "pricing"
                /\ ~result'.cached

\* The quote of the pricing engine is returned and, with a key, stored under
\* it with expiresAt = now + TTL; no other entry changes.
FreshQuoteStored ==
    QuoteStep("resolve") =>
      /\ result'.pc = "returned"
      /\ ~result'.cached
      /\ result'.quote =
           pricingEngineQuote(upstream, result.parsed.payloadBytes)
      /\ IF result.idempotencyKey.defined
            /\ trim(result.idempotencyKey.value) # << >>
           THEN LET key == trim(result.idempotencyKey.value)
                IN  /\ DOMAIN quoteByIdempotencyKey'
                         = DOMAIN quoteByIdempotencyKey \cup {key}
                    /\ quoteByIdempotencyKey'[key] =
                         [fingerprint |-> result.parsed.fingerprint,
                          quote |-> result'.quote,
                          expiresAt |-> now + idempotencyTtlMs]
                    /\ \A other \in DOMAIN quoteByIdempotencyKey \ {key} :
                          quoteByIdempotencyKey'[other]
                             = quoteByIdempotencyKey[other]
           ELSE quoteByIdempotencyKey' = quoteByIdempotencyKey

\* C25 (quote cache hit rule): getOrCreateQuote returns a cached quote only
\* when a key is given, an entry exists for that key, the entry's fingerprint
\* equals the request's fingerprint and the entry's expiresAt is later than
\* now; in every other case it asks the pricing engine for a fresh quote and,
\* when a key is given, stores it under that key with expiresAt = now + TTL.
C25_QuoteCacheHitRule == [][CachedOnlyOnHit /\ FreshQuoteStored]_vars

\* A call under a padded key has just been answered from the cache, with the
\* quote stored under the trimmed key before the upstream moved.
C25_Witness ==
    /\ "op" \in DOMAIN last
    /\ last.op = "call"
    /\ result.pc = "returned"
    /\ result.cached
    /\ result.idempotencyKey = Defined(KeyPaddedA)
    /\ upstream = 2
    /\ result.quote = pricingEngineQuote(1, result.parsed.payloadBytes)
    /\ result.quote # pricingEngineQuote(2, result.parsed.payloadBytes)


(***************************************************************************)
(* C26: anonymous quotes never touch the cache.                            *)
(***************************************************************************)
\* The call has no key: none was given, or the one given trims to nothing.
Anonymous(idempotencyKey) ==
    ~idempotencyKey.defined \/ trim(idempotencyKey.value) = << >>

\* A call without a key goes to the pricing engine, and neither the call nor
\* the arrival of the quote writes the cache.
AnonymousCallIsFresh ==
    /\ (QuoteStep("call") /\ Anonymous(result'.idempotencyKey)) =>
          /\ result'.pc = "pricing"
          /\ ~result'.cached
          /\ quoteByIdempotencyKey' = quoteByIdempotencyKey
    /\ (QuoteStep("resolve") /\ Anonymous(result.idempotencyKey)) =>
          /\ result'.quote =
               pricingEngineQuote(upstream, result.parsed.payloadBytes)
          /\ quoteByIdempotencyKey' = quoteByIdempotencyKey

\* The quote route writes neither the cache nor the idempotency store, and
\* what it answers is the quote of the pricing engine, whatever the cache
\* holds under the key of the request.
QuoteRouteIsFresh ==
    QuoteStep("quoteRoute") =>
      /\ quoteByIdempotencyKey' = quoteByIdempotencyKey
      /\ records' = records
      /\ last'.status = 200 =>
            last'.body.quote =
              pricingEngineQuote(upstream,
                                 parsedBody[last'.req.body].payloadBytes)

\* C26 (anonymous quotes never touch the cache): getOrCreateQuote without a
\* key, or with a key that is empty after trimming, always computes a fresh
\* quote and leaves the quote cache unchanged; POST /v1/quote never reads or
\* writes the quote cache or the idempotency store, whatever headers it
\* carries.
C26_AnonymousQuotesUncached == [][AnonymousCallIsFresh /\ QuoteRouteIsFresh]_vars

\* The quote route has answered a request with the fresh quote while the
\* cache holds, under the key and fingerprint of that request, a live entry
\* with another quote.
C26_Witness ==
    /\ "op" \in DOMAIN last
    /\ last.op = "quoteRoute"
    /\ last.status = 200
    /\ headerKey(last.req) \in DOMAIN quoteByIdempotencyKey
    /\ LET entry == quoteByIdempotencyKey[headerKey(last.req)]
       IN  /\ entry.fingerprint = parsedBody[last.req.body].fingerprint
           /\ entry.expiresAt > now
           /\ entry.quote # last.body.quote


(***************************************************************************)
(* C23: lazy expiry and sweep.  The store and the quote cache are filled   *)
(* by begin and by getOrCreateQuote under two keys; get, cleanup and the   *)
(* interval run at any time.                                               *)
(***************************************************************************)
SweepFingerprint == parsedBody[[data |-> DataHi]].fingerprint
SweepQuoteKeys == {Defined(KeyA), Defined(<<"b">>)}

NextSweep ==
    \/ Tick
    \/ \E key \in StoreCallKeys : StoreGet(key)
    \/ \E key \in StoreCallKeys : StoreBegin(key, SweepFingerprint)
    \/ StoreCleanup
    \/ \E idempotencyKey \in SweepQuoteKeys :
          GetOrCreateQuoteCall(parsedBody[[data |-> DataHi]], idempotencyKey)
    \/ GetOrCreateQuoteResolves
    \/ IntervalSweep

SpecSweep == InitGetQuote /\ [][NextSweep]_vars

\* get returns no record past its TTL, and the record of its key that is
\* past its TTL is gone after the call; no other key is touched.
GetExpiresLazily ==
    QuoteStep("get") =>
      /\ last'.record # NoRecord =>
            /\ WithinTtl(records, last'.key, now)
            /\ last'.record = records[last'.key]
      /\ (last'.key \in DOMAIN records /\ ~WithinTtl(records, last'.key, now))
            => /\ last'.key \notin DOMAIN records'
               /\ last'.record = NoRecord
      /\ \A other \in DOMAIN records \ {last'.key} :
            other \in DOMAIN records' /\ records'[other] = records[other]

\* The records a sweep at time t leaves are exactly the live ones.
LiveRecordsLeft ==
    /\ DOMAIN records' = {k \in DOMAIN records : WithinTtl(records, k, now)}
    /\ \A k \in DOMAIN records' : records'[k] = records[k]

\* The quotes a sweep at time t leaves are exactly those a call at t would
\* still be answered with.
LiveQuotesLeft ==
    /\ DOMAIN quoteByIdempotencyKey' =
         {k \in DOMAIN quoteByIdempotencyKey :
             quoteByIdempotencyKey[k].expiresAt > now}
    /\ \A k \in DOMAIN quoteByIdempotencyKey' :
          quoteByIdempotencyKey'[k] = quoteByIdempotencyKey[k]

SweepDeletesExpiredOnly ==
    /\ QuoteStep("cleanup") => LiveRecordsLeft
    /\ QuoteStep("sweep") => LiveRecordsLeft /\ LiveQuotesLeft

\* C23 (lazy expiry and sweep): get(key) never returns an expired record and
\* deletes the expired record of that key as a side effect; cleanup, and the
\* 60-second sweep that also prunes the quote cache, delete every expired
\* entry and no live entry.
C23_LazyExpiryAndSweep == [][GetExpiresLazily /\ SweepDeletesExpiredOnly]_vars

\* The interval has just deleted an expired record and an expired quote and
\* left a live record and a live quote.
C23_Witness ==
    /\ "op" \in DOMAIN last
    /\ last.op = "sweep"
    /\ last.deletedRecords # {}
    /\ last.deletedQuotes # {}
    /\ DOMAIN records # {}
    /\ DOMAIN quoteByIdempotencyKey # {}


(***************************************************************************)
(* C24: fingerprint binding.                                               *)
(***************************************************************************)
\* The key, the fingerprint and the creation time of the record under k.
Binding(recs, k) == <<recs[k].key, recs[k].fingerprint, recs[k].createdAtMs>>

\* A step leaves the binding of a record alone, unless the record was past
\* its TTL and begin put a new one in its place.
BindingKept ==
    \A k \in DOMAIN records \cap DOMAIN records' :
       \/ Binding(records', k) = Binding(records, k)
       \/ /\ ~WithinTtl(records, k, now)
          /\ QuoteStep("begin")
          /\ last'.key = k
          /\ records'[k].createdAtMs = now

\* Every record is filed under its own key.
FiledUnderOwnKey == \A k \in DOMAIN records : records[k].key = k

\* A live record of a key is what every get and begin of that key returns,
\* whatever fingerprint the caller brings.
LiveRecordReturned ==
    (QuoteStep("get") \/ QuoteStep("begin")) =>
       (WithinTtl(records, last'.key, now) =>
           Binding(records', last'.key) = Binding(records, last'.key)
           /\ last'.record.fingerprint = records[last'.key].fingerprint)

\* C24 (fingerprint binding): the key, fingerprint and createdAtMs of an
\* idempotency record never change after its creation by any operation
\* (begin, get, complete, fail, cleanup), so while a record for a key is
\* alive it is bound to exactly one fingerprint.
C24_FingerprintBinding ==
    /\ [][BindingKept /\ LiveRecordReturned]_vars
    /\ []FiledUnderOwnKey

\* begin has been called with another fingerprint on the key of a record
\* that was completed or failed after its creation: the record returned, and
\* the one the store holds, still have the fingerprint of the creation.
C24_Witness ==
    /\ "op" \in DOMAIN last
    /\ last.op = "begin"
    /\ ~last.created
    /\ last.record.status \in {"completed", "failed"}
    /\ last.fingerprint # last.record.fingerprint
    /\ records[last.key].fingerprint = last.record.fingerprint
    /\ records[last.key].updatedAtMs > records[last.key].createdAtMs


(***************************************************************************)
(* The RPC and Go submitters as functions of what the transport and the    *)
(* child process answer (src/src/index.ts).  An outcome is a value         *)
(* returned or an error thrown.                                            *)
(***************************************************************************)
Returns(value) == [ok |-> TRUE, value |-> value]
Throws(error) == [ok |-> FALSE, error |-> error]

\* new CelestiaSubmitError(message) and new CelestiaSubmitError(message, code)
CelestiaSubmitError(message) ==
    [name |-> "CelestiaSubmitError", message |-> message]
CelestiaSubmitErrorWithCode(message, code) ==
    [name |-> "CelestiaSubmitError", message |-> message, code |-> code]

\* What one fetch of rpcCall meets: fetch rejects, the status is not OK,
\* response.json() rejects, or the body is a JSON-RPC response with an error
\* or with a result.
FetchRejects == [transport |-> "rejects"]
HttpNotOk == [transport |-> "response", ok |-> FALSE]
BodyUnparsable == [transport |-> "response", ok |-> TRUE, json |-> "rejects"]
BodyWithError ==
    [transport |-> "response", ok |-> TRUE, json |-> "body",
     body |-> [error |-> [code |-> 3, message |-> "unauthorized"]]]
BodyWithResult(value) ==
    [transport |-> "response", ok |-> TRUE, json |-> "body",
     body |-> [result |-> value]]

RpcFailures == {FetchRejects, HttpNotOk, BodyUnparsable, BodyWithError}

\* A code that is no number.
NonNumericCode == [absent |-> FALSE, nan |-> TRUE]

\* The results of state.SubmitPayForBlob: none, or an object with a code and
\* a txhash ("" when absent).
NoRpcResult == [type |-> "undefined"]
TxResult(code, txhash) == [type |-> "object", code |-> code, txhash |-> txhash]
SubmitAnswers ==
    RpcFailures
    \cup { BodyWithResult(NoRpcResult) }
    \cup { BodyWithResult(TxResult(code, txhash)) :
             code \in {NoCode, NonNumericCode, [absent |-> FALSE, value |-> 0],
                       [absent |-> FALSE, value |-> TooLargeCode]},
             txhash \in {"", "TXHASH"} }

\* The results of state.AccountAddress and of state.Balance.
AddressAnswers ==
    RpcFailures
    \cup { BodyWithResult([type |-> "string", value |-> "celestia1poster"]),
           BodyWithResult([type |-> "object", address |-> "celestia1poster"]),
           BodyWithResult(NoRpcResult) }
BalanceAnswers ==
    RpcFailures
    \cup { BodyWithResult([type |-> "object", denom |-> "utia", amount |-> "100"]),
           BodyWithResult([type |-> "object", denom |-> "", amount |-> ""]),
           BodyWithResult(NoRpcResult) }

\* RpcCelestiaSubmitter.rpcCall: what fetch and response.json() reject with
\* passes through as it is.
rpcCall(answer) ==
    IF answer.transport = "rejects"
      THEN Throws([name |-> "TypeError", message |-> "fetch failed"])
    ELSE IF ~answer.ok
      THEN Throws(CelestiaSubmitError("Celestia RPC returned status"))
    ELSE IF answer.json = "rejects"
      THEN Throws([name |-> "SyntaxError", message |-> "Unexpected token"])
    ELSE IF "error" \in DOMAIN answer.body
      THEN Throws(CelestiaSubmitErrorWithCode("Celestia RPC error",
                                              answer.body.error.code))
    ELSE Returns(answer.body.result)

\* The checks both submitters make on the code and the hash of a response:
\* Number(code ?? 0) finite and 0, the hash a string that is not empty.
txOutcome(mode, code, txHash) ==
    IF ~code.absent /\ "nan" \in DOMAIN code
      THEN Throws(CelestiaSubmitError("non-numeric tx code"))
    ELSE IF ~code.absent /\ code.value # 0
      THEN Throws(CelestiaSubmitErrorWithCode("Celestia tx failed with code",
                                              code.value))
    ELSE IF txHash = ""
      THEN Throws(CelestiaSubmitError("response missing txhash"))
    ELSE Returns([mode |-> mode, txHash |-> txHash, code |-> 0])

\* RpcCelestiaSubmitter.submitBlob, the transport answering answer
rpcSubmitBlob(answer) ==
    LET call == rpcCall(answer)
    IN  IF ~call.ok THEN call
        ELSE IF call.value.type # "object"
          THEN Throws(CelestiaSubmitError("Celestia RPC response missing result"))
        ELSE txOutcome("rpc", call.value.code, call.value.txhash)

\* RpcCelestiaSubmitter.getPosterStatus: each query's failure is caught and
\* read as undefined; the address is the string or the object's address, the
\* balance an object with a denom or an amount.
rpcGetPosterStatus(addressAnswer, balanceAnswer) ==
    LET addressCall == rpcCall(addressAnswer)
        balanceCall == rpcCall(balanceAnswer)
        addressResult == IF addressCall.ok THEN addressCall.value ELSE NoRpcResult
        balanceResult == IF balanceCall.ok THEN balanceCall.value ELSE NoRpcResult
    IN  Returns(
          [address |->
             IF addressResult.type = "string" THEN addressResult.value
             ELSE IF addressResult.type = "object" THEN addressResult.address
             ELSE "undefined",
           balance |->
             IF balanceResult.type = "object"
                /\ (balanceResult.denom # "" \/ balanceResult.amount # "")
               THEN [denom |-> balanceResult.denom, amount |-> balanceResult.amount]
             ELSE [denom |-> "undefined", amount |-> "undefined"]])

\* GoPosterSubmitter.submitBlob on the settled promise of invoke
goSubmitBlob(invoked) ==
    IF invoked.state = "rejected"
      THEN Throws(IF "code" \in DOMAIN invoked
                    THEN CelestiaSubmitErrorWithCode(invoked.message, invoked.code)
                    ELSE CelestiaSubmitError(invoked.message))
    ELSE txOutcome("go", invoked.value.code, invoked.value.tx_hash)

\* What stdout may hold at the close.
RECURSIVE StdoutsOfLength(_)
StdoutsOfLength(n) ==
    IF n = 0 THEN {<< >>}
    ELSE {Append(s, line) : s \in StdoutsOfLength(n - 1), line \in StdoutLines}
Stdouts == UNION {StdoutsOfLength(n) : n \in 0..MaxStdoutLines}

\* What a call of a submitter leaves alone.
backendFrame == <<serverVars, earlier, pricingTiaUsdSource, cachedTiaUsd,
                  readyVars, backgroundVars, child>>

\* await rpcSubmitter.submitBlob(input)
RpcSubmitBlob(answer) ==
    /\ result' = [fn |-> "rpc.submitBlob", answer |-> answer,
                  outcome |-> rpcSubmitBlob(answer)]
    /\ UNCHANGED backendFrame

\* await rpcSubmitter.getPosterStatus()
RpcGetPosterStatus(addressAnswer, balanceAnswer) ==
    /\ result' = [fn |-> "rpc.getPosterStatus",
                  addressAnswer |-> addressAnswer,
                  balanceAnswer |-> balanceAnswer,
                  outcome |-> rpcGetPosterStatus(addressAnswer, balanceAnswer)]
    /\ UNCHANGED backendFrame

\* await goSubmitter.submitBlob(input): the command fails to start, or it
\* closes with what it wrote and its exit code, killed by the timer or not.
GoSubmitBlob(started, timedOut, stdout, stderr, code) ==
    LET invoked == IF started THEN closeOutcome(timedOut, stdout, stderr, code)
                   ELSE Rejected("Failed to start Go poster command")
    IN  /\ result' = [fn |-> "go.submitBlob", started |-> started,
                      timedOut |-> timedOut, stdout |-> stdout,
                      stderr |-> stderr, code |-> code,
                      invoked |-> invoked,
                      outcome |-> goSubmitBlob(invoked)]
        /\ UNCHANGED backendFrame

\* parseGoPosterResponse(stdout), called by the close handler
ParseGoPosterResponse(stdout) ==
    /\ result' = [fn |-> "parseGoPosterResponse", stdout |-> stdout,
                  outcome |-> parseGoPosterResponse(stdout)]
    /\ UNCHANGED backendFrame

NextBackend ==
    \/ \E answer \in SubmitAnswers : RpcSubmitBlob(answer)
    \/ \E addressAnswer \in AddressAnswers : \E balanceAnswer \in BalanceAnswers :
          RpcGetPosterStatus(addressAnswer, balanceAnswer)
    \/ \E started, timedOut \in BOOLEAN : \E stdout \in Stdouts :
       \E stderr \in StderrTexts : \E code \in ExitCodes :
          GoSubmitBlob(started, timedOut, stdout, stderr, code)
    \/ \E stdout \in Stdouts : ParseGoPosterResponse(stdout)

SpecBackend == Init /\ [][NextBackend]_vars


(***************************************************************************)
(* C27: backend errors are normalized.                                     *)
(***************************************************************************)
\* submitBlob of a submitter has thrown.
SubmitBlobThrew ==
    /\ result.fn \in {"rpc.submitBlob", "go.submitBlob"}
    /\ ~result.outcome.ok

\* C27 (backend errors are normalized): every failure of submitBlob in any
\* backend variant (HTTP status not OK, transport failure, unparsable
\* response body, RPC error object, non-zero tx code, missing tx hash,
\* subprocess spawn failure, timeout, invalid output, non-zero exit,
\* ok = false) reaches the coordinator as a CelestiaSubmitError, never as an
\* unclassified exception.
C27_BackendErrorsNormalized ==
    SubmitBlobThrew => result.outcome.error.name = "CelestiaSubmitError"

(***************************************************************************)
(* C29: the parsing of the child's output.                                 *)
(***************************************************************************)
\* The positions of the lines of stdout that are JSON.
JsonLines(stdout) == {i \in 1..Len(stdout) : stdout[i].json}

\* C29 (subprocess output parsing): when stdout holds one well-formed JSON
\* response line together with other lines that are no JSON, before or after
\* it, parseGoPosterResponse returns that response; an empty stdout yields no
\* response.
C29_LastJsonLineParsed ==
    result.fn = "parseGoPosterResponse" =>
      /\ Len(result.stdout) = 0 => result.outcome.parsed = "undefined"
      /\ Cardinality(JsonLines(result.stdout)) = 1 =>
            /\ result.outcome.parsed = "response"
            /\ \E i \in JsonLines(result.stdout) :
                  result.outcome.response = result.stdout[i]

(***************************************************************************)
(* C30: the status of the RPC poster.                                      *)
(***************************************************************************)
\* The query answered with one of the failures of rpcCall.
QueryFailed(answer) == answer \in RpcFailures

\* C30 (RPC status tolerance): getPosterStatus makes the address query and
\* the balance query independently; when exactly one of them fails it
\* returns a status with the other's value, and when both fail it reports a
\* failure and returns no status.
C30_PartialStatusTolerated ==
    result.fn = "rpc.getPosterStatus" =>
      /\ (QueryFailed(result.addressAnswer) /\ QueryFailed(result.balanceAnswer))
            => ~result.outcome.ok
      /\ (QueryFailed(result.addressAnswer)
            /\ result.balanceAnswer
                 = BodyWithResult([type |-> "object", denom |-> "utia",
                                   amount |-> "100"]))
            => /\ result.outcome.ok
               /\ result.outcome.value.balance
                    = [denom |-> "utia", amount |-> "100"]
      /\ (QueryFailed(result.balanceAnswer)
            /\ ~QueryFailed(result.addressAnswer)
            /\ result.addressAnswer # BodyWithResult(NoRpcResult))
            => /\ result.outcome.ok
               /\ result.outcome.value.address = "celestia1poster"


(***************************************************************************)
(* C28: the failure conditions of the subprocess.                          *)
(***************************************************************************)
\* The command was started and has closed; the promise of invoke is settled
\* by the close handler.
GoClosed == result.fn = "go.submitBlob" /\ result.started

\* The last line of stdout is a JSON response.
EndsWithResponse(stdout) == Len(stdout) > 0 /\ stdout[Len(stdout)].json
\* The last line of stdout is no JSON: parseGoPosterResponse throws.
EndsWithLog(stdout) == Len(stdout) > 0 /\ ~stdout[Len(stdout)].json

\* The message of a rejection for a non-zero exit: the error of the response
\* if it has one, else stderr, else the default.
ExitMessages(stdout, stderr) ==
    IF EndsWithResponse(stdout) /\ stdout[Len(stdout)].error # ""
      THEN {stdout[Len(stdout)].error}
    ELSE IF stderr # "" THEN {stderr}
    ELSE {"Go poster command exited with code"}

\* The invocation resolves only if it did not time out, the exit code is 0,
\* stdout was parsed to a response and the response's ok is not false.
ResolvesOnlyOnSuccess ==
    (GoClosed /\ result.invoked.state = "resolved") =>
       /\ ~result.timedOut
       /\ result.code = 0
       /\ EndsWithResponse(result.stdout)
       /\ result.invoked.value = result.stdout[Len(result.stdout)]
       /\ result.invoked.value.ok # "false"

\* A rejection with the exit code as error code and the message of the
\* response or of stderr.
RejectedWithExitCode ==
    /\ result.invoked.state = "rejected"
    /\ "code" \in DOMAIN result.invoked
    /\ result.invoked.code = result.code
    /\ result.invoked.message \in ExitMessages(result.stdout, result.stderr)

\* ok = false with exit code 0 rejects with the error message of the
\* response and its numeric code.
NotOkRejected ==
    (GoClosed /\ ~result.timedOut /\ result.code = 0
       /\ EndsWithResponse(result.stdout)
       /\ result.stdout[Len(result.stdout)].ok = "false") =>
       LET response == result.stdout[Len(result.stdout)]
       IN  /\ result.invoked.state = "rejected"
           /\ response.error # "" => result.invoked.message = response.error
           /\ IF response.code.absent
                THEN "code" \notin DOMAIN result.invoked
                ELSE /\ "code" \in DOMAIN result.invoked
                     /\ result.invoked.code = response.code.value

\* C28 (subprocess failure conditions), as stated: an invocation resolves
\* only if it did not time out, the exit code is 0, stdout parsed to a
\* response and the response's ok is not false; a non-zero exit code rejects
\* with the response's error message (or stderr) and the exit code as error
\* code; ok = false with exit code 0 rejects with the response's error
\* message and its numeric code.
C28_SubprocessFailureConditions ==
    /\ ResolvesOnlyOnSuccess
    /\ (GoClosed /\ ~result.timedOut /\ result.code > 0) => RejectedWithExitCode
    /\ NotOkRejected

\* C28, amended: the rejection for a non-zero exit code is made only when
\* parseGoPosterResponse did not throw; when it throws (the last line of a
\* non-empty stdout is no JSON) the invocation is rejected as invalid JSON
\* with no error code, whatever the exit code.
C28_FailureConditionsAfterParse ==
    /\ ResolvesOnlyOnSuccess
    /\ (GoClosed /\ ~result.timedOut /\ result.code > 0
          /\ ~EndsWithLog(result.stdout)) => RejectedWithExitCode
    /\ (GoClosed /\ ~result.timedOut /\ EndsWithLog(result.stdout)) =>
          result.invoked = Rejected("Go poster command returned invalid JSON")
    /\ NotOkRejected

\* The command wrote a log line only and exited with code 1 and a message on
\* stderr: the rejection is the invalid JSON one, without the exit code.
C28_Witness ==
    /\ GoClosed
    /\ ~result.timedOut
    /\ result.code = 1
    /\ result.stdout = <<LogLine>>
    /\ result.stderr # ""
    /\ result.invoked = Rejected("Go poster command returned invalid JSON")
    /\ "code" \notin DOMAIN result.invoked


(***************************************************************************)
(* refreshPosterStatus and GET /v1/poster.  A refresh is a call that waits *)
(* at `await celestiaSubmitter.getPosterStatus()`; the interval and the    *)
(* route start refreshes independently, so several can wait at once.       *)
(***************************************************************************)
SubmitterKinds == {"mock", "rpc", "go"}

\* The refreshes that may be waiting at the same time.
MaxRefreshes == 2

\* The responses of the Go poster to the action "status".
StatusLine ==
    [json |-> TRUE, ok |-> "true", error |-> "", code |-> NoCode, tx_hash |-> "",
     poster_address |-> "celestia1poster",
     balance |-> [denom |-> "utia", amount |-> "100"]]
AddressOnlyLine ==
    [json |-> TRUE, ok |-> "true", error |-> "", code |-> NoCode, tx_hash |-> "",
     poster_address |-> "celestia1poster"]
StatusStdouts ==
    { << >>, <<StatusLine>>, <<AddressOnlyLine>>, <<OkLine>>,
      <<LogLine, StatusLine>>, <<NotOkLine>>, <<StatusLine, LogLine>> }

\* What invoke({action: "status"}) settles with.
StatusInvocations ==
    { Rejected("Failed to start Go poster command") }
    \cup { closeOutcome(timedOut, stdout, stderr, code) :
             timedOut \in BOOLEAN, stdout \in StatusStdouts,
             stderr \in StderrTexts, code \in ExitCodes }

\* GoPosterSubmitter.getPosterStatus on the settled promise of invoke
goGetPosterStatus(invoked) ==
    IF invoked.state = "rejected"
      THEN Throws(IF "code" \in DOMAIN invoked
                    THEN CelestiaSubmitErrorWithCode(invoked.message, invoked.code)
                    ELSE CelestiaSubmitError(invoked.message))
    ELSE Returns(
          [address |->
             IF "poster_address" \in DOMAIN invoked.value
                /\ invoked.value.poster_address # ""
               THEN invoked.value.poster_address
             ELSE "undefined",
           balance |->
             IF "balance" \in DOMAIN invoked.value
               THEN invoked.value.balance
             ELSE [denom |-> "undefined", amount |-> "undefined"]])

\* The try and the catch of refreshPosterStatus: what posterStatus is after
\* getPosterStatus returned or threw.
refreshedPosterStatus(outcome) ==
    IF outcome.ok THEN [defined |-> TRUE, status |-> outcome.value]
    ELSE [defined |-> FALSE]

\* posterStatus ?? null in the body of GET /v1/poster
posterRouteBody(mode, status) ==
    [mode |-> mode,
     posterStatus |-> IF status.defined THEN status.status ELSE "null"]

NoRefresh == [fn |-> "none", from |-> "none", outcome |-> Returns("none")]

InitStatus ==
    /\ ServerInit
    /\ earlier = NoResult
    /\ result = NoRefresh
    /\ pricingTiaUsdSource = "fallback"
    /\ cachedTiaUsd = NoCachedTiaUsd
    /\ SyncComplete
    /\ child = NoChild
    /\ posterStatus = [defined |-> FALSE]
    /\ quotePromiseByAdapter = << >>
    /\ pending = {}
    /\ celestiaSubmitter \in SubmitterKinds

statusFrame == <<serverVars, earlier, pricingTiaUsdSource, cachedTiaUsd,
                 readyVars, child, quotePromiseByAdapter, celestiaSubmitter>>

\* refreshPosterStatus() of the start or of the interval with the mock
\* backend: it returns at once.
MockRefresh ==
    /\ celestiaSubmitter = "mock"
    /\ result' = [fn |-> "refreshPosterStatus", from |-> "interval",
                  outcome |-> Returns("void")]
    /\ UNCHANGED <<statusFrame, posterStatus, pending>>

\* GET /v1/poster with the mock backend
MockPosterRoute ==
    /\ celestiaSubmitter = "mock"
    /\ result' = [fn |-> "GET /v1/poster", from |-> "route",
                  outcome |-> Returns([mode |-> "mock"])]
    /\ UNCHANGED <<statusFrame, posterStatus, pending>>

\* refreshPosterStatus() is called, by the interval or by GET /v1/poster,
\* and waits for getPosterStatus.
RefreshCalled(from) ==
    /\ celestiaSubmitter # "mock"
    /\ Cardinality(pending) < MaxRefreshes
    /\ \E id \in 1..MaxRefreshes :
          /\ \A call \in pending : call.id # id
          /\ pending' = pending \cup {[id |-> id, from |-> from]}
    /\ result' = [fn |-> "getPosterStatus", from |-> from,
                  outcome |-> Returns("pending")]
    /\ UNCHANGED <<statusFrame, posterStatus>>

\* getPosterStatus settles: refreshPosterStatus assigns posterStatus and
\* returns, and the route, when it was the caller, responds.
RefreshSettles(call, outcome) ==
    /\ call \in pending
    /\ pending' = pending \ {call}
    /\ posterStatus' = refreshedPosterStatus(outcome)
    /\ result' = [fn |-> "refreshPosterStatus", from |-> call.from,
                  outcome |-> outcome,
                  returned |-> Returns("void"),
                  response |->
                    IF call.from = "route"
                      THEN posterRouteBody(celestiaSubmitter, posterStatus')
                    ELSE "none"]
    /\ UNCHANGED statusFrame

RpcRefreshSettles(call, addressAnswer, balanceAnswer) ==
    /\ celestiaSubmitter = "rpc"
    /\ RefreshSettles(call, rpcGetPosterStatus(addressAnswer, balanceAnswer))

GoRefreshSettles(call, invoked) ==
    /\ celestiaSubmitter = "go"
    /\ RefreshSettles(call, goGetPosterStatus(invoked))

NextStatus ==
    \/ MockRefresh
    \/ MockPosterRoute
    \/ \E from \in {"interval", "route"} : RefreshCalled(from)
    \/ \E call \in pending, addressAnswer \in AddressAnswers,
          balanceAnswer \in BalanceAnswers :
          RpcRefreshSettles(call, addressAnswer, balanceAnswer)
    \/ \E call \in pending, invoked \in StatusInvocations :
          GoRefreshSettles(call, invoked)

SpecStatus == InitStatus /\ [][NextStatus]_vars

\* A refresh whose getPosterStatus threw has just returned.
RefreshFailed ==
    /\ result'.fn = "refreshPosterStatus"
    /\ ~result'.outcome.ok

\* C31: a refresh that fails is swallowed (refreshPosterStatus returns and
\* the route still answers) and leaves the stored posterStatus as it was;
\* with the mock backend no step changes posterStatus.
C31_RefreshKeepsLastSnapshot ==
    [][/\ RefreshFailed =>
            /\ result'.returned.ok
            /\ posterStatus' = posterStatus
       /\ celestiaSubmitter = "mock" => posterStatus' = posterStatus]_vars


(***************************************************************************)
(* What a quote tells about the rate it was priced at.                     *)
(***************************************************************************)
\* Where the rate of the call r came from: the configured fallback (by
\* configuration, or after a failed read) or the rate source (read by this
\* call, or read earlier and cached).
RateSourceUsed(r) ==
    IF pricingTiaUsdSource = "fallback" THEN "fallback"
    ELSE IF r.rate.kind = "not read" THEN "live"
    ELSE IF RateReadFailed(r) THEN "fallback"
    ELSE "live"

\* C32: the quote returned by PricingEngine.quote identifies the rate source
\* used for it: two calls that return the same quote used the same source.
C32_RateSourceReported ==
    (Quoted(earlier) /\ Quoted(result) /\ earlier.outcome = result.outcome)
        => RateSourceUsed(earlier) = RateSourceUsed(result)


(***************************************************************************)
(* loadTiaUsd under concurrent calls of quote.  A call takes Date.now(),   *)
(* tests the cache and, on a miss, waits for the rate source; what it      *)
(* writes to the cache when the read returns carries the time taken before *)
(* the wait.                                                               *)
(***************************************************************************)
\* The calls of loadTiaUsd that may wait for the rate source at once.
MaxLoads == 2

\* this.cachedTiaUsd && now - this.cachedTiaUsd.fetchedAtMs < 60_000
rateCacheFresh(cached, t) ==
    cached # NoCachedTiaUsd /\ t - cached.fetchedAtMs < tiaUsdCacheMs

\* The start times of the reads of the rate source that succeeded so far.
NoFetches == [fn |-> "loadTiaUsd", succeededAt |-> {}]

InitRate ==
    /\ ServerInit
    /\ earlier = NoFetches
    /\ result = [fn |-> "none", step |-> "none"]
    /\ pricingTiaUsdSource \in {"coingecko", "fallback"}
    /\ cachedTiaUsd = NoCachedTiaUsd
    /\ BackgroundInit
    /\ SyncComplete
    /\ child = NoChild

rateFrame == <<serverVars, pricingTiaUsdSource, readyVars, child, posterStatus,
               quotePromiseByAdapter, celestiaSubmitter>>

\* loadTiaUsd() with the fallback configured
LoadTiaUsdFallback ==
    /\ pricingTiaUsdSource = "fallback"
    /\ result' = [fn |-> "loadTiaUsd", step |-> "fallback", startedAt |-> now,
                  value |-> tiaUsdFallback]
    /\ UNCHANGED <<rateFrame, earlier, cachedTiaUsd, pending>>

\* loadTiaUsd() answered from the cache
LoadTiaUsdHit ==
    /\ pricingTiaUsdSource # "fallback"
    /\ rateCacheFresh(cachedTiaUsd, now)
    /\ result' = [fn |-> "loadTiaUsd", step |-> "hit", startedAt |-> now,
                  value |-> cachedTiaUsd.value]
    /\ UNCHANGED <<rateFrame, earlier, cachedTiaUsd, pending>>

\* loadTiaUsd() misses the cache and waits at `await fetch(...)`.
LoadTiaUsdFetch ==
    /\ pricingTiaUsdSource # "fallback"
    /\ ~rateCacheFresh(cachedTiaUsd, now)
    /\ Cardinality(pending) < MaxLoads
    /\ \E id \in 1..MaxLoads :
          /\ \A call \in pending : call.id # id
          /\ pending' = pending \cup {[id |-> id, now |-> now]}
    /\ result' = [fn |-> "loadTiaUsd", step |-> "fetch", startedAt |-> now,
                  value |-> 0]
    /\ UNCHANGED <<rateFrame, earlier, cachedTiaUsd>>

\* The rate source answers a waiting call: the rest of the try, or the
\* catch.
LoadTiaUsdSettles(call, answer) ==
    LET loaded == loadTiaUsd(pricingTiaUsdSource, NoCachedTiaUsd, call.now,
                             answer)
        cachedNow == loaded.cached # NoCachedTiaUsd
    IN  /\ call \in pending
        /\ pending' = pending \ {call}
        /\ cachedTiaUsd' = IF cachedNow THEN loaded.cached ELSE cachedTiaUsd
        /\ earlier' = IF cachedNow
                        THEN [earlier EXCEPT !.succeededAt = @ \cup {call.now}]
                      ELSE earlier
        /\ result' = [fn |-> "loadTiaUsd", step |-> "settled",
                      startedAt |-> call.now, value |-> loaded.value,
                      answer |-> answer, cachedNow |-> cachedNow]
        /\ UNCHANGED rateFrame

NextRate ==
    \/ PricingTick
    \/ LoadTiaUsdFallback
    \/ LoadTiaUsdHit
    \/ LoadTiaUsdFetch
    \/ \E call \in pending, answer \in RateAnswers :
          LoadTiaUsdSettles(call, answer)

SpecRate == InitRate /\ [][NextRate]_vars

\* A call of loadTiaUsd starts.
LoadStarts ==
    /\ result'.fn = "loadTiaUsd"
    /\ result'.step \in {"fallback", "hit", "fetch"}

\* The call that starts does so within the cache lifetime of a read that
\* has succeeded.
WithinCacheLifetime ==
    \E t \in earlier.succeededAt : t <= now /\ now < t + tiaUsdCacheMs

\* The answer is a number that is finite and > 0.
PlausibleRate(answer) ==
    answer.kind = "body" /\ answer.usd = "finite" /\ answer.value > 0

\* C33: a call of loadTiaUsd that starts less than the cache lifetime after
\* the start of a read that succeeded returns the cached value and reads
\* nothing; the cache changes only when a read returns a finite rate > 0,
\* and then to that rate; with the fallback configured nothing is read.
C33_RateCache ==
    [][/\ LoadStarts /\ WithinCacheLifetime
            => /\ result'.step = "hit"
               /\ result'.value = cachedTiaUsd.value
       /\ cachedTiaUsd' # cachedTiaUsd
            => /\ result'.step = "settled"
               /\ PlausibleRate(result'.answer)
               /\ cachedTiaUsd'.value = result'.answer.value
       /\ pricingTiaUsdSource = "fallback" => pending' = {}]_vars


(***************************************************************************)
(* The attempts of POST /v1/blobs and the records they began.              *)
(***************************************************************************)
\* The request r is at an await of the handler, after its begin.
AfterBegin(r) == r.pc \in {"quote", "submitting"}

\* The handler of r applies complete or fail in this step.
AppliesTerminal(r) ==
    /\ r \in inflight
    /\ AfterBegin(r)
    /\ r \notin inflight'
    /\ "began" \in DOMAIN last'
    /\ last'.began = r.began

\* The record stored under the key of r is the one r began.
OwnRecord(recs, r) ==
    keyOf(r) \in DOMAIN recs /\ recs[keyOf(r)].createdAtMs = r.began

\* C38 (attempt isolation): the complete or fail of a request changes no
\* record but the one that request began: a record under its key that
\* another attempt began is left as it is.
C38_AttemptIsolation ==
    [][\A r \in inflight :
          (AppliesTerminal(r) /\ keyOf(r) \in DOMAIN records
                              /\ ~OwnRecord(records, r))
            => /\ keyOf(r) \in DOMAIN records'
               /\ records'[keyOf(r)] = records[keyOf(r)]]_vars


(***************************************************************************)
(* A failed gas read in POST /v1/blobs.                                    *)
(***************************************************************************)
\* The pricing call of the handler of r rejects in this step.
QuoteFailsFor(r) ==
    /\ r \in inflight
    /\ r.pc = "quote"
    /\ r \notin inflight'
    /\ last'.kind = "failed"
    /\ last'.error = PricingError

\* C34 as claimed: when the gas estimate or the gas price cannot be read,
\* the pricing call of the handler fails; the record the request began is
\* then marked failed with status 500, the response is 500 and submitBlob is
\* not invoked for the attempt.
C34_GasFailureFailsQuote ==
    [][\A r \in inflight :
          QuoteFailsFor(r) =>
            /\ last'.response.status = 500
            /\ submitCount' = submitCount
            /\ OwnRecord(records', r)
            /\ records'[keyOf(r)].status = "failed"
            /\ records'[keyOf(r)].responseStatus = 500]_vars

\* C34 amended: the response is 500 and submitBlob is not invoked for the
\* attempt; the record the request began is marked failed with status 500
\* when it is still stored under the key, and no record is created when it
\* is not.
C34_GasFailureFailsLiveAttempt ==
    [][\A r \in inflight :
          QuoteFailsFor(r) =>
            /\ last'.response.status = 500
            /\ submitCount' = submitCount
            /\ \A s \in submissions' : ~(s.key = keyOf(r) /\ s.began = r.began)
            /\ OwnRecord(records, r) =>
                  /\ OwnRecord(records', r)
                  /\ records'[keyOf(r)].status = "failed"
                  /\ records'[keyOf(r)].responseStatus = 500
            /\ keyOf(r) \notin DOMAIN records => records' = records]_vars

\* The pricing call of a request fails while the record it began is still
\* stored: the record is failed with 500 and the attempt has ended.
C34_Witness ==
    /\ last.kind = "failed"
    /\ last.error = PricingError
    /\ last.response.status = 500
    /\ \E k \in DOMAIN records :
          /\ records[k].createdAtMs = last.began
          /\ records[k].status = "failed"
          /\ records[k].responseStatus = 500


(***************************************************************************)
(* quoteForRequest: the price callback of each payment option and the      *)
(* unpaid-response body call it with the adapter of the request they serve.*)
(***************************************************************************)
Adapters == {1, 2}
Callers == {"price", "unpaidResponseBody"}

\* What an adapter answers to getBody() and getHeader("idempotency-key").
AdapterRequests ==
    { [body |-> [data |-> DataHi], idempotencyKey |-> k] :
        k \in {Undefined, Defined(KeyA)} }
    \cup { [body |-> [data |-> DataNonCanonical], idempotencyKey |-> Defined(KeyA)],
           [body |-> [data |-> DataBig], idempotencyKey |-> Defined(KeyA)] }

\* The most computations counted for one adapter.
MaxComputed == 2

\* quoteForRequest computing on every call.
quoteForRequestMemoNever(memo, adapterRef) == FALSE

\* const existing = quotePromiseByAdapter.get(adapterRef); if (existing)
quoteForRequestMemo(memo, adapterRef) == adapterRef \in DOMAIN memo

\* The promise of the async function quoteForRequest creates, as it stands
\* when quoteForRequest returns: it has thrown on the body, returned the
\* cached quote, or waits for pricingEngine.quote.
quoteForRequestPromise(adapterRef, request, cache, t) ==
    LET parsed == parsedBody[request.body]
        normalizedKey == normalizedKeyOf(request.idempotencyKey)
    IN  IF parsed = ParseError
          THEN [of |-> adapterRef, request |-> request, state |-> "rejected",
                value |-> ParseError]
        ELSE IF parsed.payloadBytes > maxPayloadBytes
          THEN [of |-> adapterRef, request |-> request, state |-> "rejected",
                value |-> [error |-> "Payload exceeds MAX_PAYLOAD_BYTES"]]
        ELSE IF quoteCacheHit(cache, normalizedKey, parsed.fingerprint, t)
          THEN [of |-> adapterRef, request |-> request, state |-> "resolved",
                value |-> cache[normalizedKey].quote]
        ELSE [of |-> adapterRef, request |-> request, state |-> "pending",
              value |-> NoQuote]

\* The history of the calls: how often the body of an adapter was parsed and
\* priced, and what the callers of quoteForRequest received for it.
NoCalls ==
    [fn |-> "quoteForRequest",
     computed |-> [a \in Adapters |-> 0],
     received |-> [a \in Adapters |-> {}]]

InitMemo ==
    /\ ServerInit
    /\ earlier = NoCalls
    /\ result = [fn |-> "none", step |-> "none", adapter |-> 0]
    /\ pricingTiaUsdSource = "fallback"
    /\ cachedTiaUsd = NoCachedTiaUsd
    /\ BackgroundInit
    /\ SyncComplete
    /\ child = NoChild

memoFrame == <<now, records, inflight, last, submitCount, submissions,
               answered, issued, arrived, pricingTiaUsdSource, cachedTiaUsd,
               readyVars, child, posterStatus, celestiaSubmitter>>

\* quoteForRequest(context) is called by caller with the adapter adapterRef,
\* whose request is the one it was called with before, if it was.
QuoteForRequest(adapterRef, caller, request) ==
    LET memoized == quoteForRequestMemo(quotePromiseByAdapter, adapterRef)
        promise == IF memoized THEN quotePromiseByAdapter[adapterRef]
                   ELSE quoteForRequestPromise(adapterRef, request,
                                               quoteByIdempotencyKey, now)
    IN  /\ adapterRef \in DOMAIN quotePromiseByAdapter
              => request = quotePromiseByAdapter[adapterRef].request
        /\ [adapter |-> adapterRef, caller |-> caller] \notin pending
        /\ pending' = pending \cup {[adapter |-> adapterRef, caller |-> caller]}
        /\ quotePromiseByAdapter' = MapSet(quotePromiseByAdapter, adapterRef, promise)
        /\ earlier' = IF memoized THEN earlier
                      ELSE [earlier EXCEPT !.computed[adapterRef] =
                                              IF @ < MaxComputed THEN @ + 1 ELSE @]
        /\ result' = [fn |-> "quoteForRequest", step |-> "called",
                      adapter |-> adapterRef, caller |-> caller,
                      promiseOf |-> promise.of, memoized |-> memoized]
        /\ UNCHANGED <<memoFrame, upstream, quoteByIdempotencyKey>>

\* pricingEngine.quote settles for the computation of an adapter:
\* getOrCreateQuote stores and returns the quote, or rejects.
MemoPricingSettles(adapterRef, priced) ==
    LET promise == quotePromiseByAdapter[adapterRef]
        parsed == parsedBody[promise.request.body]
        q == pricingEngineQuote(upstream, parsed.payloadBytes)
    IN  /\ adapterRef \in DOMAIN quotePromiseByAdapter
        /\ promise.state = "pending"
        /\ quotePromiseByAdapter' =
             MapSet(quotePromiseByAdapter, adapterRef,
                    IF priced THEN [promise EXCEPT !.state = "resolved", !.value = q]
                    ELSE [promise EXCEPT !.state = "rejected",
                                         !.value = PricingError])
        /\ quoteByIdempotencyKey' =
             IF priced
               THEN quoteCacheStore(quoteByIdempotencyKey,
                                    normalizedKeyOf(promise.request.idempotencyKey),
                                    parsed.fingerprint, q, now)
             ELSE quoteByIdempotencyKey
        /\ result' = [fn |-> "getOrCreateQuote", step |-> "settled",
                      adapter |-> adapterRef]
        /\ UNCHANGED <<memoFrame, upstream, earlier, pending>>

\* A caller receives what the promise it was given settled with.
MemoReceive(call) ==
    LET promise == quotePromiseByAdapter[call.adapter]
    IN  /\ call \in pending
        /\ promise.state # "pending"
        /\ pending' = pending \ {call}
        /\ earlier' = [earlier EXCEPT !.received[call.adapter] =
                          @ \cup {[state |-> promise.state, value |-> promise.value]}]
        /\ result' = [fn |-> "quoteForRequest", step |-> "received",
                      adapter |-> call.adapter, caller |-> call.caller]
        /\ UNCHANGED <<memoFrame, upstream, quoteByIdempotencyKey,
                       quotePromiseByAdapter>>

\* The upstream moves between the calls.
MemoUpstreamMove ==
    /\ upstream = 1
    /\ upstream' = 2
    /\ result' = [fn |-> "none", step |-> "none", adapter |-> 0]
    /\ UNCHANGED <<memoFrame, earlier, quoteByIdempotencyKey, pending,
                   quotePromiseByAdapter>>

NextMemo ==
    \/ \E adapterRef \in Adapters, caller \in Callers, request \in AdapterRequests :
          QuoteForRequest(adapterRef, caller, request)
    \/ \E adapterRef \in Adapters, priced \in BOOLEAN :
          MemoPricingSettles(adapterRef, priced)
    \/ \E call \in pending : MemoReceive(call)
    \/ MemoUpstreamMove

SpecMemo == InitMemo /\ [][NextMemo]_vars

\* C35: for one adapter the body is parsed and a quote obtained at most
\* once, every caller with that adapter receives the one result, failure
\* included, and a call is never given the promise made for another adapter.
C35_PerAdapterMemoization ==
    /\ \A a \in Adapters :
          /\ earlier.computed[a] <= 1
          /\ Cardinality(earlier.received[a]) <= 1
          /\ a \in DOMAIN quotePromiseByAdapter
                => /\ earlier.computed[a] = 1
                   /\ quotePromiseByAdapter[a].of = a
    /\ result.step = "called" => result.promiseOf = result.adapter

\* Both callers of one adapter have received the same failure of the pricing
\* call, and the other adapter, with the same request, was priced by a
\* computation of its own, which succeeded.
C35_Witness ==
    /\ earlier.received[1] = {[state |-> "rejected", value |-> PricingError]}
    /\ earlier.computed[1] = 1
    /\ earlier.computed[2] = 1
    /\ 2 \in DOMAIN quotePromiseByAdapter
    /\ quotePromiseByAdapter[2].request = quotePromiseByAdapter[1].request
    /\ quotePromiseByAdapter[2].state = "resolved"
    /\ pending = {}
    /\ result.step = "received"
    /\ result.adapter = 1
    /\ result.caller = "unpaidResponseBody"


(***************************************************************************)
(* The order of the steps of one attempt, and their progress when the      *)
(* calls the handler waits for return.                                     *)
(***************************************************************************)
\* The awaits of the handler return: the promise of getOrCreateQuote and the
\* promise of submitBlob settle.
HandlerAwaitsReturn ==
    /\ WF_vars(\E r \in inflight : QuoteReturn(r) \/ QuoteThrow(r))
    /\ WF_vars(\E r \in inflight : \E o \in submitBlob(r.req.body) :
                  (o.ok /\ SubmitReturn(r, o.result))
                  \/ (~o.ok /\ SubmitThrow(r, o.error)))

SpecLive == Init /\ [][Next]_vars /\ HandlerAwaitsReturn

\* The record begun at time c under key k, as it is stored.
ProcessingRecord(k, c) ==
    /\ k \in DOMAIN records
    /\ records[k].createdAtMs = c
    /\ records[k].status = "processing"
TerminalRecord(k, c) ==
    /\ k \in DOMAIN records
    /\ records[k].createdAtMs = c
    /\ records[k].status \in {"completed", "failed"}
RemovedRecord(k, c) ==
    ~(k \in DOMAIN records /\ records[k].createdAtMs = c)

\* submitBlob is invoked only by a request that has begun a record and
\* holds a quote.
SubmitAfterBeginAndQuote ==
    [][submitCount' # submitCount =>
          \E r \in inflight' \ inflight :
             /\ r.pc = "submitting"
             /\ r.began >= 0
             /\ r.began <= now
             /\ r.quote # NoQuote
             /\ "chargedUsd" \in DOMAIN r.quote
             /\ Submission(keyOf(r), parsedOf(r).fingerprint, r.began, "pending")
                  \in submissions']_vars

\* The response of an attempt is sent with complete or fail applied: the
\* record the request began, where stored, is not processing any more.
TerminalBeforeResponse ==
    [][\A r \in inflight :
          AppliesTerminal(r) =>
            /\ last'.kind \in {"completed", "failed"}
            /\ OwnRecord(records', r) =>
                  records'[keyOf(r)].status =
                      IF OwnRecord(records, r) THEN last'.kind
                      ELSE records[keyOf(r)].status
            /\ OwnRecord(records, r) => OwnRecord(records', r)]_vars

\* C36 as claimed: the backend is invoked after begin and quote, complete or
\* fail is applied before the response, and, the awaits returning, every
\* record the handler begins reaches completed or failed.
C36_ProtocolOrder ==
    /\ SubmitAfterBeginAndQuote
    /\ TerminalBeforeResponse
    /\ \A k \in StoreKeys : \A c \in 0..MaxTime :
          ProcessingRecord(k, c) ~> TerminalRecord(k, c)

\* C36 amended: ... every record the handler begins reaches completed or
\* failed unless it expires first and is removed while processing.
C36_ProtocolOrderUntilExpiry ==
    /\ SubmitAfterBeginAndQuote
    /\ TerminalBeforeResponse
    /\ \A k \in StoreKeys : \A c \in 0..MaxTime :
          ProcessingRecord(k, c) ~> (TerminalRecord(k, c) \/ RemovedRecord(k, c))

\* An attempt that made its pricing call and its submission has answered
\* 200 and the record it began is completed.
C36_Witness ==
    /\ last.kind = "completed"
    /\ \E k \in StoreKeys :
          /\ TerminalRecord(k, last.began)
          /\ records[k].status = "completed"
          /\ \E s \in submissions :
                s.key = k /\ s.began = last.began /\ s.outcome = "ok"


(***************************************************************************)
(* The requests the hook admits without payment.                           *)
(***************************************************************************)
\* The handler runs for r in this step.
HandlerRuns(r) ==
    /\ r \in inflight
    /\ r.pc \in {"handler", "verify"}
    /\ Handler(r)

\* C37: a request the hook has granted access without payment is answered
\* by the handler with a replay or a 409; the handler begins no record for
\* it and submitBlob is not invoked for it.
C37_UnpaidNeverReachesBackend ==
    [][\A r \in inflight :
          (r.granted /\ HandlerRuns(r))
            => /\ r \notin inflight'
               /\ \A s \in inflight' : s.id # r.id
               /\ last'.kind \in {"replay", "processing", "conflict"}
               /\ last'.response.status \in {200, 409, 413, 502, 500}
               /\ submitCount' = submitCount
               /\ \A k \in DOMAIN records' :
                     k \in DOMAIN records /\ records'[k] = records[k]]_vars


(***************************************************************************)
(* The entries of the quote cache under overlapping calls of               *)
(* getOrCreateQuote.                                                       *)
(***************************************************************************)
\* The entry stored under k is within its time to live.
LiveEntry(cache, k, t) == k \in DOMAIN cache /\ cache[k].expiresAt > t

\* The request r waits for the pricing call of its getOrCreateQuote.
AwaitsPricing(r) == r.pc \in {"pricing", "quote"}

\* The pricing call of r returns in this step and getOrCreateQuote stores.
StoresQuote(r) ==
    /\ r \in inflight
    /\ AwaitsPricing(r)
    /\ PricingReturn(r) \/ QuoteReturn(r)

\* C39 as claimed: for one key and fingerprint a live entry of the quote
\* cache is never replaced by a different quote, whatever the interleaving
\* of the calls.
C39_ConcurrentQuotesAgree ==
    [][\A k \in DOMAIN quoteByIdempotencyKey :
          (/\ LiveEntry(quoteByIdempotencyKey, k, now)
           /\ k \in DOMAIN quoteByIdempotencyKey'
           /\ quoteByIdempotencyKey'[k].fingerprint
                = quoteByIdempotencyKey[k].fingerprint)
            => quoteByIdempotencyKey'[k].quote
                 = quoteByIdempotencyKey[k].quote]_vars

\* C39 amended: a live entry is replaced or removed only by the store of a
\* call for its key that was waiting for its pricing call, and a call starts
\* to wait only when it finds no live entry for its key and fingerprint: a
\* call that starts while the entry is live never replaces it.
C39_LiveEntryKeptByLaterCalls ==
    [][/\ \A k \in DOMAIN quoteByIdempotencyKey :
            (/\ LiveEntry(quoteByIdempotencyKey, k, now)
             /\ \/ k \notin DOMAIN quoteByIdempotencyKey'
                \/ quoteByIdempotencyKey'[k] # quoteByIdempotencyKey[k])
              => \E r \in inflight : keyOf(r) = k /\ StoresQuote(r)
       /\ \A r \in inflight' :
            (/\ AwaitsPricing(r)
             /\ \A s \in inflight : ~(s.id = r.id /\ s.pc = r.pc))
              => ~quoteCacheHit(quoteByIdempotencyKey, keyOf(r),
                                parsedOf(r).fingerprint, now)]_vars

\* Two callers for one key and fingerprint hold different quotes within the
\* time to live: the entry stored by one call was replaced by the store of a
\* call that overlapped it, after the upstream had moved.
C39_Witness ==
    \E r \in inflight :
       /\ r.pc \in {"verify", "submitting"}
       /\ r.quote # NoQuote
       /\ quoteCacheHit(quoteByIdempotencyKey, keyOf(r), parsedOf(r).fingerprint, now)
       /\ quoteByIdempotencyKey[keyOf(r)].quote # r.quote
       /\ quoteByIdempotencyKey[keyOf(r)].quote
            = pricingEngineQuote(2, parsedOf(r).payloadBytes)

====
